---- MODULE Spec2Model ----
(***************************************************************************)
(* Verification model of the netlist testability analysis                  *)
(* (scripts/scripts/feature_extraction.py) and of the Trojan synthesizer   *)
(* and weaver (scripts/scripts/trojan_inserter.py).                        *)
(***************************************************************************)
EXTENDS Integers, Sequences, FiniteSets, TLC

(***************************************************************************)
(* Bounds of the model.                                                    *)
(***************************************************************************)
\* Longest input list of a gate rule called on its own.
MaxRuleInputs == 2
\* Longest cell name, in pieces, given to the gate classifier.
MaxNamePieces == 3
\* Largest number of gate instantiation statements of a parsed text.
MaxStatements == 2
\* Largest number of buffers of a text analysed twice.
MaxBuffers == 2
\* Largest number of gate instances of a small netlist.
MaxGates == 2
\* Longest buffer chain (in gates) of the chain netlists.
MaxChain == 11
\* Longest source text (in tokens) handed to the weaver on its own.
MaxTextLen == 4
\* Most Trojans requested of insert_multiple_trojans.
MaxTrojans == 2

\* Longest ranked site list handed to insert_multiple_trojans.
MaxBatchTargets == 21

\* Most insert_trojan calls on one inserter.
MaxInsertions == 2
\* Longest ranked site list handed to insert_trojan.
MaxTargets == 4

(***************************************************************************)
(* Program constants.                                                      *)
(***************************************************************************)
\* for iteration in range(10)
MaxIterations == 10
\* abs(new - old) > 0.01, as the fraction 1 / ChangeEpsilonDen
ChangeEpsilonDen == 100
\* the flip-flop penalty, the multiplexer constant
DffPenalty == 5
MuxConstant == 2
\* reg [15:0] trojan_counter: the width of the counter
CounterWidth == 16
\* min(value, 100) / 100.0: the ceiling of the compiled costs
FeatureCeiling == 100

(***************************************************************************)
(* Cost values.  Python floats: non-negative rationals and float('inf').   *)
(* A value is n/d in lowest terms; float('inf') is 1/0.                    *)
(***************************************************************************)
RECURSIVE GCD(_, _)
GCD(a, b) == IF b = 0 THEN a ELSE GCD(b, a % b)

Rat(n, d) == LET g == GCD(n, d) IN [n |-> n \div g, d |-> d \div g]

Num(k) == [n |-> k, d |-> 1]

Inf == [n |-> 1, d |-> 0]

IsInf(v) == v.d = 0

\* a + b
Plus(a, b) == IF IsInf(a) \/ IsInf(b) THEN Inf
              ELSE Rat(a.n * b.d + b.n * a.d, a.d * b.d)

\* a < b
Less(a, b) == IF IsInf(a) THEN FALSE
              ELSE IF IsInf(b) THEN TRUE
              ELSE a.n * b.d < b.n * a.d

\* a <= b
Leq(a, b) == ~Less(b, a)

\* the larger of the two in place of the smaller
Min2_Larger(a, b) == IF Less(a, b) THEN b ELSE a

\* min(a, b): Python returns a unless b < a
Min2(a, b) == IF Less(b, a) THEN b ELSE a

\* a / k for an integer k > 0
DivBy(a, k) == IF IsInf(a) THEN Inf ELSE Rat(a.n, a.d * k)

\* abs(a - b) > 0.01; inf - inf is nan, and every comparison with nan is False
ChangedBy(a, b) ==
    IF IsInf(a) /\ IsInf(b) THEN FALSE
    ELSE IF IsInf(a) \/ IsInf(b) THEN TRUE
    ELSE LET diff == a.n * b.d - b.n * a.d
             mag  == IF diff < 0 THEN -diff ELSE diff
         IN  mag * ChangeEpsilonDen > a.d * b.d

\* sum(xs), 0 for the empty list
RECURSIVE SumSeq(_)
SumSeq(xs) == IF xs = <<>> THEN Num(0) ELSE Plus(Head(xs), SumSeq(Tail(xs)))

\* the first element taken for the minimum
MinSeq_First(xs) == xs[1]

\* min(xs) of a non-empty list
RECURSIVE MinSeq(_)
MinSeq(xs) == IF Len(xs) = 1 THEN xs[1] ELSE Min2(xs[1], MinSeq(Tail(xs)))

Range(s) == {s[k] : k \in 1..Len(s)}

(***************************************************************************)
(* The netlists the analysis is run on.  A netlist is what NetlistParser   *)
(* hands to FeatureExtractor: the net table, the gates in dictionary       *)
(* order, the primary inputs and the primary outputs.  Every net a gate    *)
(* names is in the net table (the parser declares it when it meets it).    *)
(***************************************************************************)
GateType == {"AND", "OR", "XOR", "NAND", "NOR", "XNOR", "NOT", "BUF", "DFF",
             "MUX", "UNKNOWN"}

Gate(gate_type, inputs, outputs) ==
    [gate_type |-> gate_type, inputs |-> inputs, outputs |-> outputs]

\* Small netlists: input 0, internal net 1, output 2; a first gate of any
\* kind with up to two inputs and at most one output, anywhere, followed by
\* flip-flops between any two nets.
SmallNets == {0, 1, 2}

InputLists == {<<>>} \cup {<<i>> : i \in SmallNets}
                     \cup {<<i, j>> : i \in SmallNets, j \in SmallNets}

OutputLists == {<<>>} \cup {<<i>> : i \in SmallNets}

FirstGates == {Gate(t, ins, outs) :
                   t \in GateType, ins \in InputLists, outs \in OutputLists}

FlipFlops == {Gate("DFF", <<i>>, <<j>>) : i \in SmallNets, j \in SmallNets}

RECURSIVE GateLists(_)
GateLists(k) == IF k = 1 THEN {<<g>> : g \in FirstGates}
                ELSE {Append(gs, f) : gs \in GateLists(k - 1), f \in FlipFlops}

SmallNetlists(max_gates) ==
    {[nets |-> SmallNets, gates |-> gs,
      primary_inputs |-> {0}, primary_outputs |-> {2}] :
         gs \in UNION {GateLists(k) : k \in 1..max_gates}}

\* Chain netlists: input 0, buffers 0 -> 1 -> ... -> len, and a flip-flop
\* feeding net len back to net 1; len is the output.  The buffers are listed
\* from the far end back to the input (far_first) or from the input on.
ChainGates(len, far_first) ==
    [k \in 1..(len + 1) |->
        IF k > len THEN Gate("DFF", <<len>>, <<1>>)
        ELSE IF far_first THEN Gate("BUF", <<len - k>>, <<len - k + 1>>)
        ELSE Gate("BUF", <<k - 1>>, <<k>>)]

ChainNetlists ==
    {[nets |-> 0..len, gates |-> ChainGates(len, far_first),
      primary_inputs |-> {0}, primary_outputs |-> {len}] :
         len \in 1..MaxChain, far_first \in BOOLEAN}

\* An AND gate closing a flip-flop loop: d = a AND q, q = DFF(d).
LoopNetlists ==
    {[nets |-> SmallNets,
      gates |-> <<Gate("AND", <<0, 2>>, <<1>>), Gate("DFF", <<1>>, <<2>>)>>,
      primary_inputs |-> {0}, primary_outputs |-> {2}]}

\* A netlist whose values settle slowly.  Net 0 is the input a.  Net 6 (x)
\* is driven by an OR of a with itself and by a cell of unknown kind that
\* averages x with three copies of a, so x falls by a quarter of its
\* distance to 7/3 in each pass.  Nets 1..4 (y, f1, f2, f3) are the same
\* recurrence laid out without feedback.  Net 7 (u) is f3 AND x, and the
\* output net 5 (z) is u OR u, listed before the gates that drive x and u.
SlowGates ==
    <<Gate("OR", <<0, 0>>, <<1>>),
      Gate("UNKNOWN", <<1, 0, 0, 0>>, <<2>>),
      Gate("UNKNOWN", <<2, 0, 0, 0>>, <<3>>),
      Gate("UNKNOWN", <<3, 0, 0, 0>>, <<4>>),
      Gate("OR", <<7, 7>>, <<5>>),
      Gate("OR", <<0, 0>>, <<6>>),
      Gate("UNKNOWN", <<6, 0, 0, 0>>, <<6>>),
      Gate("AND", <<4, 6>>, <<7>>)>>

SlowNetlists ==
    {[nets |-> 0..7, gates |-> SlowGates,
      primary_inputs |-> {0}, primary_outputs |-> {5}]}

Netlists(max_gates) ==
    SmallNetlists(max_gates) \cup ChainNetlists \cup LoopNetlists
        \cup SlowNetlists

AllNets == SmallNets \cup (0..MaxChain)

(***************************************************************************)
(* State.                                                                  *)
(***************************************************************************)
VARIABLES
    nets,               \* parser.nets: the names in the net table
    gates,              \* parser.gates: the gates, in dictionary order
    primary_inputs,     \* parser.primary_inputs
    primary_outputs,    \* parser.primary_outputs
    controllability_0,  \* Net.controllability_0 of every net
    controllability_1,  \* Net.controllability_1 of every net
    observability,      \* Net.observability of every net
    pc,                 \* where the run is
    iteration,          \* the loop variable of the running pass
    gate_index,         \* the next gate of the running pass
    changed,            \* the changed flag of the running pass
    passes,             \* full passes completed by the running pass loop
    ctrl_passes,        \* full passes the controllability loop took
    raised,             \* an exception left the analysis
    netlist_content,    \* TrojanInserter.netlist_content
    trojan_counter,     \* TrojanInserter.trojan_counter
    output_files,       \* the files written to output_dir, by name
    call,               \* the arguments of the last insert_trojan call
    trojan_verilog,     \* the fragment last generated or woven
    modified_netlist,   \* the text last returned by the weaver
    result,             \* what the last insert_trojan call returned or raised,
                        \* and the warnings it gave on the way
    hw_values,          \* the values of the nets the Trojan is wired to
    rst,                \* the reset input of the Trojan
    trojan_state,       \* reg [1:0] trojan_state_<id>
    trojan_counter_reg, \* reg [15:0] trojan_counter_<id>
    observed,           \* sequential trigger: trigger nets seen asserted in
                        \* ranked order since the last reset, -1 before the
                        \* first reset
    fn_args,            \* the arguments of a function called on its own
    fn_return,          \* what that call returned
    batch_i,            \* insert_multiple_trojans: the loop variable i
    results,            \* insert_multiple_trojans: results
    metadata_file       \* the content of insertion_metadata.json, if written

netlist_vars == <<nets, gates, primary_inputs, primary_outputs>>

scoap_vars == <<nets, gates, primary_inputs, primary_outputs,
                controllability_0, controllability_1, observability,
                iteration, gate_index, changed, passes, ctrl_passes,
                raised>>

inserter_vars == <<netlist_content, trojan_counter, output_files, call,
                   trojan_verilog, modified_netlist, result>>

hw_vars == <<hw_values, rst, trojan_state, trojan_counter_reg, observed>>

batch_vars == <<batch_i, results, metadata_file>>

fn_vars == <<fn_args, fn_return, batch_vars>>

vars == <<scoap_vars, pc, inserter_vars, hw_vars, fn_vars>>

\* no call yet, nothing returned yet
NoCall == [target_nets |-> <<>>, trigger_type |-> "", payload_type |-> ""]

NoMetadata ==
    [id |-> 0, output_file |-> <<>>, trigger_type |-> "",
     payload_type |-> "", trigger_nets |-> <<>>, trigger_scores |-> <<>>,
     payload_net |-> <<>>, payload_score |-> <<>>]

NoResult ==
    [status |-> "none", exception |-> "", warnings |-> <<>>,
     output_file |-> <<>>, metadata |-> NoMetadata]

\* the inserter, where a specification does not run it
InserterIdle ==
    /\ netlist_content = <<>>
    /\ trojan_counter = 0
    /\ output_files = <<>>
    /\ call = NoCall
    /\ trojan_verilog = <<>>
    /\ modified_netlist = <<>>
    /\ result = NoResult

\* no function called on its own
BatchIdle ==
    /\ batch_i = 0
    /\ results = <<>>
    /\ metadata_file = <<>>

FnIdle ==
    /\ fn_args = <<>>
    /\ fn_return = <<>>
    /\ BatchIdle

\* the generated circuit, where a specification does not run it
HwIdle ==
    /\ hw_values = <<>>
    /\ rst = FALSE
    /\ trojan_state = 0
    /\ trojan_counter_reg = 0
    /\ observed = 0

\* the analysis, where a specification does not run it
ScoapIdle ==
    /\ nets = {}
    /\ gates = <<>>
    /\ primary_inputs = {}
    /\ primary_outputs = {}
    /\ controllability_0 = <<>>
    /\ controllability_1 = <<>>
    /\ observability = <<>>
    /\ iteration = 0
    /\ gate_index = 1
    /\ changed = FALSE
    /\ passes = 0
    /\ ctrl_passes = 0
    /\ raised = FALSE

\* Net.__init__: the features start at 0.0
InitScoap ==
    /\ \E netlist \in Netlists(MaxGates) :
          /\ nets = netlist.nets
          /\ gates = netlist.gates
          /\ primary_inputs = netlist.primary_inputs
          /\ primary_outputs = netlist.primary_outputs
    /\ controllability_0 = [net \in nets |-> Num(0)]
    /\ controllability_1 = [net \in nets |-> Num(0)]
    /\ observability = [net \in nets |-> Num(0)]
    /\ pc = "scoap"
    /\ iteration = 0
    /\ gate_index = 1
    /\ changed = FALSE
    /\ passes = 0
    /\ ctrl_passes = 0
    /\ raised = FALSE
    /\ InserterIdle
    /\ HwIdle
    /\ FnIdle

(***************************************************************************)
(* _compute_scoap: the initialisation, up to the call of the forward pass. *)
(***************************************************************************)
BaselineControllability == Num(1)

_compute_scoap ==
    /\ pc = "scoap"
    /\ controllability_0' =
          [net \in nets |-> IF net \in primary_inputs
                            THEN BaselineControllability ELSE Inf]
    /\ controllability_1' =
          [net \in nets |-> IF net \in primary_inputs
                            THEN BaselineControllability ELSE Inf]
    /\ observability' = [net \in nets |-> Inf]
    /\ pc' = "controllability"
    /\ iteration' = 0
    /\ gate_index' = 1
    /\ changed' = FALSE
    /\ passes' = 0
    /\ UNCHANGED <<netlist_vars, ctrl_passes, raised, inserter_vars,
                   hw_vars, fn_vars>>

(***************************************************************************)
(* _gate_controllability: the candidate (c0, c1) of a gate's outputs.      *)
(***************************************************************************)
\* min() of an empty list raises ValueError
_gate_controllability_raises(gate_type, input_c0, input_c1) ==
    \/ gate_type \in {"AND", "NOR"} /\ (input_c0 = <<>> \/ input_c1 = <<>>)
    \/ gate_type \in {"NAND", "OR"} /\ (input_c0 = <<>> \/ input_c1 = <<>>)

Mean(xs) == DivBy(SumSeq(xs), Len(xs))

_gate_controllability(gate_type, input_c0, input_c1) ==
    CASE gate_type = "AND" ->
            [c0 |-> Plus(MinSeq(input_c0), Num(1)),
             c1 |-> Plus(SumSeq(input_c1), Num(1))]
      [] gate_type = "NAND" ->
            [c0 |-> Plus(SumSeq(input_c1), Num(1)),
             c1 |-> Plus(MinSeq(input_c0), Num(1))]
      [] gate_type = "OR" ->
            [c0 |-> Plus(SumSeq(input_c0), Num(1)),
             c1 |-> Plus(MinSeq(input_c1), Num(1))]
      [] gate_type = "NOR" ->
            [c0 |-> Plus(MinSeq(input_c1), Num(1)),
             c1 |-> Plus(SumSeq(input_c0), Num(1))]
      [] gate_type \in {"XOR", "XNOR"} ->
            [c0 |-> Plus(Min2(SumSeq(input_c0), SumSeq(input_c1)), Num(1)),
             c1 |-> Plus(Min2(SumSeq(input_c0), SumSeq(input_c1)), Num(1))]
      [] gate_type = "NOT" ->
            [c0 |-> IF input_c1 # <<>> THEN Plus(input_c1[1], Num(1))
                    ELSE Num(1),
             c1 |-> IF input_c0 # <<>> THEN Plus(input_c0[1], Num(1))
                    ELSE Num(1)]
      [] gate_type = "BUF" ->
            [c0 |-> IF input_c0 # <<>> THEN Plus(input_c0[1], Num(1))
                    ELSE Num(1),
             c1 |-> IF input_c1 # <<>> THEN Plus(input_c1[1], Num(1))
                    ELSE Num(1)]
      [] gate_type = "DFF" ->
            [c0 |-> IF input_c0 # <<>>
                    THEN Plus(input_c0[1], Num(DffPenalty))
                    ELSE Num(DffPenalty),
             c1 |-> IF input_c1 # <<>>
                    THEN Plus(input_c1[1], Num(DffPenalty))
                    ELSE Num(DffPenalty)]
      [] gate_type = "MUX" ->
            [c0 |-> IF input_c0 # <<>>
                    THEN Plus(Mean(input_c0), Num(MuxConstant))
                    ELSE Num(MuxConstant),
             c1 |-> IF input_c1 # <<>>
                    THEN Plus(Mean(input_c1), Num(MuxConstant))
                    ELSE Num(MuxConstant)]
      [] OTHER ->
            [c0 |-> IF input_c0 # <<>> THEN Plus(Mean(input_c0), Num(1))
                    ELSE Num(1),
             c1 |-> IF input_c1 # <<>> THEN Plus(Mean(input_c1), Num(1))
                    ELSE Num(1)]

(***************************************************************************)
(* _compute_controllability: one gate of one pass, and the end of a pass.  *)
(***************************************************************************)
\* the inputs of the gate that are in the net table, in order
ResolvedNets(names) == SelectSeq(names, LAMBDA name : name \in nets)

\* if not input_c0: continue
SkipsGate(input_c0) == input_c0 = <<>>

\* the update written as a plain assignment of the candidate
UpdatedControllability_Assign(old, candidate) == candidate

\* self.nets[out].controllability = min(self.nets[out].controllability, c)
UpdatedControllability(old, candidate) == Min2(old, candidate)

\* the controllabilities after the update of one gate that is not skipped
ControllabilityAfter(c0, c1, gate) ==
    LET ins == ResolvedNets(gate.inputs)
        input_c0 == [k \in 1..Len(ins) |-> c0[ins[k]]]
        input_c1 == [k \in 1..Len(ins) |-> c1[ins[k]]]
        outs == Range(ResolvedNets(gate.outputs))
        out == _gate_controllability(gate.gate_type, input_c0, input_c1)
    IN  [c0 |-> [net \in nets |->
                    IF net \in outs
                    THEN UpdatedControllability(c0[net], out.c0)
                    ELSE c0[net]],
         c1 |-> [net \in nets |->
                    IF net \in outs
                    THEN UpdatedControllability(c1[net], out.c1)
                    ELSE c1[net]]]

ControllabilityGate ==
    /\ pc = "controllability"
    /\ gate_index <= Len(gates)
    /\ LET gate == gates[gate_index]
           ins == ResolvedNets(gate.inputs)
           input_c0 == [k \in 1..Len(ins) |-> controllability_0[ins[k]]]
           input_c1 == [k \in 1..Len(ins) |-> controllability_1[ins[k]]]
           outs == Range(ResolvedNets(gate.outputs))
       IN  IF SkipsGate(input_c0)
           THEN /\ gate_index' = gate_index + 1
                /\ UNCHANGED <<controllability_0, controllability_1,
                               changed, pc, raised>>
           ELSE IF _gate_controllability_raises(gate.gate_type,
                                                input_c0, input_c1)
           THEN /\ raised' = TRUE
                /\ pc' = "raised"
                /\ UNCHANGED <<controllability_0, controllability_1,
                               changed, gate_index>>
           ELSE LET new == ControllabilityAfter(controllability_0,
                                                controllability_1, gate)
                    new_c0 == new.c0
                    new_c1 == new.c1
                IN  /\ controllability_0' = new_c0
                    /\ controllability_1' = new_c1
                    /\ changed' =
                          (\/ changed
                           \/ \E net \in outs :
                                \/ ChangedBy(new_c0[net],
                                             controllability_0[net])
                                \/ ChangedBy(new_c1[net],
                                             controllability_1[net]))
                    /\ gate_index' = gate_index + 1
                    /\ UNCHANGED <<pc, raised>>
    /\ UNCHANGED <<netlist_vars, observability, iteration, passes,
                   ctrl_passes, inserter_vars, hw_vars, fn_vars>>

\* the loop written as "while changed", without the cap
LoopContinues_NoCap(iter, chg) == chg

\* for iteration in range(10): ... if not changed: break
LoopContinues(iter, chg) == chg /\ iter + 1 < MaxIterations

ControllabilityPassEnd ==
    /\ pc = "controllability"
    /\ gate_index > Len(gates)
    /\ passes' = passes + 1
    /\ IF LoopContinues(iteration, changed)
       THEN /\ iteration' = iteration + 1
            /\ gate_index' = 1
            /\ changed' = FALSE
            /\ UNCHANGED <<pc, ctrl_passes>>
       ELSE /\ pc' = "observability"
            /\ ctrl_passes' = passes + 1
            /\ UNCHANGED <<iteration, gate_index, changed>>
    /\ UNCHANGED <<netlist_vars, controllability_0, controllability_1,
                   observability, raised, inserter_vars,
                   hw_vars, fn_vars>>

(***************************************************************************)
(* _compute_observability: the primary outputs, one gate of one pass, and  *)
(* the end of a pass.                                                      *)
(***************************************************************************)
BaselineObservability == Num(0)

_compute_observability ==
    /\ pc = "observability"
    /\ observability' =
          [net \in nets |-> IF net \in primary_outputs
                            THEN BaselineObservability
                            ELSE observability[net]]
    /\ pc' = "observability_loop"
    /\ iteration' = 0
    /\ gate_index' = 1
    /\ changed' = FALSE
    /\ passes' = 0
    /\ UNCHANGED <<netlist_vars, controllability_0, controllability_1,
                   ctrl_passes, raised, inserter_vars,
                   hw_vars, fn_vars>>

\* the fan-in taken as the number of distinct input nets
InputObservability_DistinctNets(min_output_obs, gate) ==
    Plus(min_output_obs, Num(Cardinality(Range(gate.inputs))))

\* new_obs = min_output_obs + len(gate.inputs)
InputObservability(min_output_obs, gate) ==
    Plus(min_output_obs, Num(Len(gate.inputs)))

\* the update written as a plain assignment of the propagated value
UpdatedObservability_Assign(old, new_obs) == new_obs

\* self.nets[inp].observability = min(self.nets[inp].observability, new_obs)
UpdatedObservability(old, new_obs) == Min2(old, new_obs)

\* the observabilities after the update of one gate
ObservabilityAfter(obs, gate) ==
    LET outs == ResolvedNets(gate.outputs)
        output_obs == [k \in 1..Len(outs) |-> obs[outs[k]]]
        ins == Range(ResolvedNets(gate.inputs))
    IN  IF output_obs = <<>> THEN obs
        ELSE [net \in nets |->
                IF net \in ins
                THEN UpdatedObservability(
                         obs[net], InputObservability(MinSeq(output_obs), gate))
                ELSE obs[net]]

ObservabilityGate ==
    /\ pc = "observability_loop"
    /\ gate_index <= Len(gates)
    /\ LET new_obs == ObservabilityAfter(observability, gates[gate_index])
       IN  /\ observability' = new_obs
           /\ changed' =
                 (\/ changed
                  \/ \E net \in nets :
                        ChangedBy(new_obs[net], observability[net]))
    /\ gate_index' = gate_index + 1
    /\ UNCHANGED <<netlist_vars, controllability_0, controllability_1,
                   pc, iteration, passes, ctrl_passes, raised, inserter_vars,
                   hw_vars, fn_vars>>

ObservabilityPassEnd ==
    /\ pc = "observability_loop"
    /\ gate_index > Len(gates)
    /\ passes' = passes + 1
    /\ IF LoopContinues(iteration, changed)
       THEN /\ iteration' = iteration + 1
            /\ gate_index' = 1
            /\ changed' = FALSE
            /\ UNCHANGED pc
       ELSE /\ pc' = "done"
            /\ UNCHANGED <<iteration, gate_index, changed>>
    /\ UNCHANGED <<netlist_vars, controllability_0, controllability_1,
                   observability, ctrl_passes, raised, inserter_vars,
                   hw_vars, fn_vars>>

\* What a caller can read of a FeatureExtractor once a pass has returned:
\* the attributes set by __init__, each with the type of its value.  The
\* passes return None, and iteration and changed are locals of the passes.
FeatureExtractor ==
    [parser   |-> [type |-> "NetlistParser",
                   value |-> [primary_inputs |-> primary_inputs,
                              primary_outputs |-> primary_outputs]],
     graph    |-> [type |-> "DiGraph", value |-> <<nets, gates>>],
     nets     |-> [type |-> "dict",
                   value |-> [net \in nets |->
                                [controllability_0 |-> controllability_0[net],
                                 controllability_1 |-> controllability_1[net],
                                 observability |-> observability[net]]]],
     gates    |-> [type |-> "dict", value |-> gates],
     features |-> [type |-> "dict", value |-> <<>>]]

NextScoap ==
    \/ _compute_scoap
    \/ ControllabilityGate
    \/ ControllabilityPassEnd
    \/ _compute_observability
    \/ ObservabilityGate
    \/ ObservabilityPassEnd

SpecScoap == InitScoap /\ [][NextScoap]_vars

(***************************************************************************)
(* Source text.  A text is a sequence of tokens; a token is a piece of     *)
(* text written from a format string, the Trojan number substituted into   *)
(* it (0 when it has none) and the strings substituted into it.  The line  *)
(* break is a token of its own.                                            *)
(***************************************************************************)
Tok(text, id, args) == [text |-> text, id |-> id, args |-> args]

NL == Tok("\n", 0, <<>>)

EndModule == Tok("endmodule", 0, <<>>)

\* any piece of the design that holds no keyword and no marker
SomeText == Tok("wire w;", 0, <<>>)

StartMarker == Tok("  // === INSERTED TROJAN START ===", 0, <<>>)

EndMarker == Tok("  // === INSERTED TROJAN END ===", 0, <<>>)

\* '\n'.join(lines), every line a sequence of tokens
RECURSIVE JoinLines(_)
JoinLines(lines) ==
    IF lines = <<>> THEN <<>>
    ELSE IF Len(lines) = 1 THEN lines[1]
    ELSE lines[1] \o <<NL>> \o JoinLines(Tail(lines))

(***************************************************************************)
(* _generate_trojan_logic: the text of the Trojan.  trigger_nets is a list *)
(* of (net, score) pairs, payload_net a list holding the payload pair or   *)
(* nothing (None).  The time stamp of the "Inserted:" line is left open.   *)
(***************************************************************************)
TriggerTypes == {"combinational", "sequential", "counter"}

PayloadTypes == {"leakage", "dos", "corruption"}

NetNames(pairs) == [k \in 1..Len(pairs) |-> pairs[k][1]]

\* trigger_nets[0][0] of an empty list raises IndexError
_generate_trojan_logic_raises(trigger_nets, trigger_type) ==
    trigger_type \in {"sequential", "counter"} /\ trigger_nets = <<>>

\* the trigger expression conjoining only the first two nets
CombinationalTrigger_FirstTwo(trigger_nets, id) ==
    << <<NL, Tok("  // Combinational trigger: rare combination", 0, <<>>)>>,
       <<Tok("  wire trojan_trigger_{id};", id, <<>>)>>,
       <<Tok("  assign trojan_trigger_{id} = {' & '.join(nets)};", id,
             NetNames(SubSeq(trigger_nets, 1,
                             IF Len(trigger_nets) < 2 THEN Len(trigger_nets)
                             ELSE 2)))>> >>

\* if trigger_type == 'combinational'
CombinationalTrigger(trigger_nets, id) ==
    << <<NL, Tok("  // Combinational trigger: rare combination", 0, <<>>)>>,
       <<Tok("  wire trojan_trigger_{id};", id, <<>>)>>,
       <<Tok("  assign trojan_trigger_{id} = {' & '.join(nets)};", id,
             NetNames(trigger_nets))>> >>

CaseArm(state, net, next, id) ==
    <<Tok("        2'b{state}: if ({net}) trojan_state_{id} <= 2'b{next};",
          id, <<state, net, next>>)>>

\* the machine with every case arm waiting for the first trigger net
SequentialTrigger_FirstNetOnly(trigger_nets, id) ==
    << <<NL, Tok("  // Sequential trigger: FSM", 0, <<>>)>>,
       <<Tok("  reg [1:0] trojan_state_{id};", id, <<>>)>>,
       <<Tok("  wire trojan_trigger_{id};", id, <<>>)>>,
       <<NL, Tok("  always @(posedge clk or posedge rst) begin", 0, <<>>)>>,
       <<Tok("    if (rst)", 0, <<>>)>>,
       <<Tok("      trojan_state_{id} <= 2'b{reset};", id, <<"00">>)>>,
       <<Tok("    else begin", 0, <<>>)>>,
       <<Tok("      case (trojan_state_{id})", id, <<>>)>>,
       CaseArm("00", trigger_nets[1][1], "01", id) >>
    \o (IF Len(trigger_nets) > 1
        THEN <<CaseArm("01", trigger_nets[1][1], "10", id)>> ELSE <<>>)
    \o (IF Len(trigger_nets) > 2
        THEN <<CaseArm("10", trigger_nets[1][1], "11", id)>> ELSE <<>>)
    \o << <<Tok("        default: trojan_state_{id} <= 2'b{next};", id,
                <<"00">>)>>,
          <<Tok("      endcase", 0, <<>>)>>,
          <<Tok("    end", 0, <<>>)>>,
          <<Tok("  end", 0, <<>>)>>,
          <<Tok("  assign trojan_trigger_{id} = (trojan_state_{id} == 2'b{fire});",
                id, <<"11">>)>> >>

\* the machine whose arm for the last trigger net leads to the firing state
SequentialTrigger_FiresOnLastNet(trigger_nets, id) ==
    << <<NL, Tok("  // Sequential trigger: FSM", 0, <<>>)>>,
       <<Tok("  reg [1:0] trojan_state_{id};", id, <<>>)>>,
       <<Tok("  wire trojan_trigger_{id};", id, <<>>)>>,
       <<NL, Tok("  always @(posedge clk or posedge rst) begin", 0, <<>>)>>,
       <<Tok("    if (rst)", 0, <<>>)>>,
       <<Tok("      trojan_state_{id} <= 2'b{reset};", id, <<"00">>)>>,
       <<Tok("    else begin", 0, <<>>)>>,
       <<Tok("      case (trojan_state_{id})", id, <<>>)>>,
       CaseArm("00", trigger_nets[1][1],
               IF Len(trigger_nets) = 1 THEN "11" ELSE "01", id) >>
    \o (IF Len(trigger_nets) > 1
        THEN <<CaseArm("01", trigger_nets[2][1],
                       IF Len(trigger_nets) = 2 THEN "11" ELSE "10", id)>>
        ELSE <<>>)
    \o (IF Len(trigger_nets) > 2
        THEN <<CaseArm("10", trigger_nets[3][1], "11", id)>> ELSE <<>>)
    \o << <<Tok("        default: trojan_state_{id} <= 2'b{next};", id,
                <<"00">>)>>,
          <<Tok("      endcase", 0, <<>>)>>,
          <<Tok("    end", 0, <<>>)>>,
          <<Tok("  end", 0, <<>>)>>,
          <<Tok("  assign trojan_trigger_{id} = (trojan_state_{id} == 2'b{fire});",
                id, <<"11">>)>> >>

\* elif trigger_type == 'sequential'
SequentialTrigger(trigger_nets, id) ==
    << <<NL, Tok("  // Sequential trigger: FSM", 0, <<>>)>>,
       <<Tok("  reg [1:0] trojan_state_{id};", id, <<>>)>>,
       <<Tok("  wire trojan_trigger_{id};", id, <<>>)>>,
       <<NL, Tok("  always @(posedge clk or posedge rst) begin", 0, <<>>)>>,
       <<Tok("    if (rst)", 0, <<>>)>>,
       <<Tok("      trojan_state_{id} <= 2'b{reset};", id, <<"00">>)>>,
       <<Tok("    else begin", 0, <<>>)>>,
       <<Tok("      case (trojan_state_{id})", id, <<>>)>>,
       CaseArm("00", trigger_nets[1][1], "01", id) >>
    \o (IF Len(trigger_nets) > 1
        THEN <<CaseArm("01", trigger_nets[2][1], "10", id)>> ELSE <<>>)
    \o (IF Len(trigger_nets) > 2
        THEN <<CaseArm("10", trigger_nets[3][1], "11", id)>> ELSE <<>>)
    \o << <<Tok("        default: trojan_state_{id} <= 2'b{next};", id,
                <<"00">>)>>,
          <<Tok("      endcase", 0, <<>>)>>,
          <<Tok("    end", 0, <<>>)>>,
          <<Tok("  end", 0, <<>>)>>,
          <<Tok("  assign trojan_trigger_{id} = (trojan_state_{id} == 2'b{fire});",
                id, <<"11">>)>> >>

\* the counter enabled by the last trigger net
CounterTrigger_LastNet(trigger_nets, id) ==
    << <<NL, Tok("  // Counter-based trigger: rare event", 0, <<>>)>>,
       <<Tok("  reg [15:0] trojan_counter_{id};", id, <<>>)>>,
       <<Tok("  wire trojan_trigger_{id};", id, <<>>)>>,
       <<NL, Tok("  always @(posedge clk or posedge rst) begin", 0, <<>>)>>,
       <<Tok("    if (rst)", 0, <<>>)>>,
       <<Tok("      trojan_counter_{id} <= 16'h0000;", id, <<>>)>>,
       <<Tok("    else if ({net})", 0,
             <<trigger_nets[Len(trigger_nets)][1]>>)>>,
       <<Tok("      trojan_counter_{id} <= trojan_counter_{id} + 1;", id,
             <<>>)>>,
       <<Tok("  end", 0, <<>>)>>,
       <<Tok("  assign trojan_trigger_{id} = (trojan_counter_{id} == 16'hFFFF);",
             id, <<>>)>> >>

\* elif trigger_type == 'counter'
CounterTrigger(trigger_nets, id) ==
    << <<NL, Tok("  // Counter-based trigger: rare event", 0, <<>>)>>,
       <<Tok("  reg [15:0] trojan_counter_{id};", id, <<>>)>>,
       <<Tok("  wire trojan_trigger_{id};", id, <<>>)>>,
       <<NL, Tok("  always @(posedge clk or posedge rst) begin", 0, <<>>)>>,
       <<Tok("    if (rst)", 0, <<>>)>>,
       <<Tok("      trojan_counter_{id} <= 16'h0000;", id, <<>>)>>,
       <<Tok("    else if ({net})", 0, <<trigger_nets[1][1]>>)>>,
       <<Tok("      trojan_counter_{id} <= trojan_counter_{id} + 1;", id,
             <<>>)>>,
       <<Tok("  end", 0, <<>>)>>,
       <<Tok("  assign trojan_trigger_{id} = (trojan_counter_{id} == 16'hFFFF);",
             id, <<>>)>> >>

\* the leakage statement written for every payload kind
PayloadLogic_AlwaysLeakage(payload_net, payload_type, id) ==
    IF payload_net = <<>> THEN <<>>
    ELSE LET net == payload_net[1][1]
         IN  << <<NL, Tok("  // Payload: {payload_type}", 0, <<payload_type>>)>>,
                <<Tok("  wire trojan_payload_{id};", id, <<>>)>>,
                <<Tok("  assign trojan_payload_{id} = trojan_trigger_{id} ? {net} : 1'b0;",
                      id, <<net>>)>>,
                <<Tok("  // Note: Connect trojan_payload_{id} to an output for leakage",
                      id, <<>>)>> >>

\* if payload_net: ... the three payload kinds
PayloadLogic(payload_net, payload_type, id) ==
    IF payload_net = <<>> THEN <<>>
    ELSE LET net == payload_net[1][1]
         IN  << <<NL, Tok("  // Payload: {payload_type}", 0, <<payload_type>>)>>,
                <<Tok("  wire trojan_payload_{id};", id, <<>>)>> >>
             \o (CASE payload_type = "leakage" ->
                      << <<Tok("  assign trojan_payload_{id} = trojan_trigger_{id} ? {net} : 1'b0;",
                               id, <<net>>)>>,
                         <<Tok("  // Note: Connect trojan_payload_{id} to an output for leakage",
                               id, <<>>)>> >>
                   [] payload_type = "dos" ->
                      << <<Tok("  assign trojan_payload_{id} = trojan_trigger_{id} ? 1'b0 : {net};",
                               id, <<net>>)>>,
                         <<Tok("  // Note: Replace {net} with trojan_payload_{id} in the design",
                               id, <<net>>)>> >>
                   [] payload_type = "corruption" ->
                      << <<Tok("  assign trojan_payload_{id} = trojan_trigger_{id} ? ~{net} : {net};",
                               id, <<net>>)>>,
                         <<Tok("  // Note: Replace {net} with trojan_payload_{id} in the design",
                               id, <<net>>)>> >>)

_generate_trojan_logic(trigger_nets, payload_net, trigger_type, payload_type, id) ==
    JoinLines(
        << <<NL, StartMarker>>,
           <<Tok("  // Trigger: {trigger_type}, Payload: {payload_type}", 0,
                 <<trigger_type, payload_type>>)>>,
           <<Tok("  // Inserted: {now}", 0, <<>>)>> >>
        \o (CASE trigger_type = "combinational" ->
                    CombinationalTrigger(trigger_nets, id)
              [] trigger_type = "sequential" ->
                    SequentialTrigger(trigger_nets, id)
              [] trigger_type = "counter" ->
                    CounterTrigger(trigger_nets, id))
        \o PayloadLogic(payload_net, payload_type, id)
        \o << <<EndMarker, NL>> >>)

(***************************************************************************)
(* _insert_into_netlist: the fragment woven into the source text.          *)
(***************************************************************************)
\* re.search(r'(endmodule)', content): the start of the first match, 0 for
\* no match
RECURSIVE SearchFrom(_, _, _)
SearchFrom(content, token, k) ==
    IF k > Len(content) THEN 0
    ELSE IF content[k] = token THEN k
    ELSE SearchFrom(content, token, k + 1)

Search(content, token) == SearchFrom(content, token, 1)

\* the fragment spliced in after the keyword
_insert_into_netlist_After(content, fragment) ==
    LET pos == Search(content, EndModule)
    IN  IF pos # 0
        THEN SubSeq(content, 1, pos) \o fragment \o <<NL>>
             \o SubSeq(content, pos + 1, Len(content))
        ELSE content \o <<NL>> \o fragment

\* the fragment woven into the netlist written by the call before
_insert_into_netlist_Accumulating(content, fragment) ==
    LET base == IF modified_netlist # <<>> THEN modified_netlist ELSE content
        pos == Search(base, EndModule)
    IN  IF pos # 0
        THEN SubSeq(base, 1, pos - 1) \o fragment \o <<NL>>
             \o SubSeq(base, pos, Len(base))
        ELSE base \o <<NL>> \o fragment

_insert_into_netlist(content, fragment) ==
    LET pos == Search(content, EndModule)
    IN  IF pos # 0
        THEN SubSeq(content, 1, pos - 1) \o fragment \o <<NL>>
             \o SubSeq(content, pos, Len(content))
        ELSE content \o <<NL>> \o fragment

(***************************************************************************)
(* The weaver on its own: any source text, any fragment of the generator.  *)
(***************************************************************************)
\* the ranked sites: (net, score) pairs, the score in hundredths
Site(k) == <<"n" \o ToString(k), 100 - 10 * k>>

RankedSites == [k \in 1..MaxTargets |-> Site(k)]

TargetLists == {SubSeq(RankedSites, 1, len) : len \in 0..MaxTargets}

\* the whole list taken as trigger nets
TriggerNets_All(target_nets) == target_nets

\* target_nets[:min(3, len(target_nets))]
TriggerNets(target_nets) ==
    SubSeq(target_nets, 1, IF Len(target_nets) < 3 THEN Len(target_nets) ELSE 3)

\* target_nets[0] if target_nets else None
PayloadNet(target_nets) ==
    IF target_nets # <<>> THEN <<target_nets[1]>> ELSE <<>>

RECURSIVE SeqsUpTo(_, _)
SeqsUpTo(S, len) ==
    IF len = 0 THEN {<<>>}
    ELSE LET shorter == SeqsUpTo(S, len - 1)
         IN  shorter \cup {Append(t, x) : t \in shorter, x \in S}

Texts == SeqsUpTo({SomeText, EndModule, NL, StartMarker}, MaxTextLen)

Fragments ==
    {_generate_trojan_logic(TriggerNets(t), PayloadNet(t), tt, pt, 1) :
        t \in {u \in TargetLists : u # <<>>},
        tt \in TriggerTypes, pt \in PayloadTypes}

InitWeave ==
    /\ ScoapIdle
    /\ HwIdle
    /\ FnIdle
    /\ pc = "weave"
    /\ netlist_content \in Texts
    /\ trojan_counter = 0
    /\ output_files = <<>>
    /\ call = NoCall
    /\ trojan_verilog = <<>>
    /\ modified_netlist = <<>>
    /\ result = NoResult

Weave ==
    /\ pc = "weave"
    /\ \E fragment \in Fragments :
          /\ trojan_verilog' = fragment
          /\ modified_netlist' = _insert_into_netlist(netlist_content, fragment)
    /\ pc' = "woven"
    /\ UNCHANGED <<scoap_vars, netlist_content, trojan_counter, output_files,
                   call, result, hw_vars, fn_vars>>

NextWeave == Weave

SpecWeave == InitWeave /\ [][NextWeave]_vars

(***************************************************************************)
(* insert_trojan, called again and again on one inserter, with no extra    *)
(* metadata, as at its call site.  The estimated gate count and the time   *)
(* stamp of the descriptor are left out.                                   *)
(***************************************************************************)
\* the original netlists: one with the closing keyword, one without
InsertTexts ==
    {<<SomeText, NL, EndModule, NL>>, <<SomeText, NL>>}

\* the file name without the number of the insertion
OutputFileName_NoCounter(counter, trigger_type, payload_type) ==
    [counter |-> 0, trigger_type |-> trigger_type,
     payload_type |-> payload_type]

\* f"{module_name}_trojan_{counter:03d}_{trigger_type}_{payload_type}.v"
OutputFileName(counter, trigger_type, payload_type) ==
    [counter |-> counter, trigger_type |-> trigger_type,
     payload_type |-> payload_type]

InitInsert ==
    /\ ScoapIdle
    /\ HwIdle
    /\ FnIdle
    /\ pc = "insert"
    /\ netlist_content \in InsertTexts
    /\ trojan_counter = 0
    /\ output_files = <<>>
    /\ call = NoCall
    /\ trojan_verilog = <<>>
    /\ modified_netlist = <<>>
    /\ result = NoResult

\* write_ok: open(output_file, 'w') and the write succeed
insert_trojan(target_nets, trigger_type, payload_type, write_ok) ==
    /\ trojan_counter' = trojan_counter + 1
    /\ call' = [target_nets |-> target_nets, trigger_type |-> trigger_type,
                payload_type |-> payload_type]
    /\ LET id == trojan_counter + 1
           trigger_nets == TriggerNets(target_nets)
           payload_net == PayloadNet(target_nets)
       IN  IF _generate_trojan_logic_raises(trigger_nets, trigger_type)
           THEN /\ result' = [status |-> "raised", exception |-> "IndexError",
                              warnings |-> <<>>,
                              output_file |-> <<>>, metadata |-> NoMetadata]
                /\ trojan_verilog' = <<>>
                /\ modified_netlist' = <<>>
                /\ UNCHANGED output_files
           ELSE LET fragment == _generate_trojan_logic(
                                    trigger_nets, payload_net, trigger_type,
                                    payload_type, id)
                    modified == _insert_into_netlist(netlist_content, fragment)
                    output_file == OutputFileName(id, trigger_type,
                                                  payload_type)
                    written == [name \in DOMAIN output_files \ {output_file}
                                   |-> output_files[name]]
                IN  IF ~write_ok
                    THEN /\ result' = [status |-> "raised",
                                       exception |-> "OSError",
                                       warnings |-> <<>>,
                                       output_file |-> <<>>,
                                       metadata |-> NoMetadata]
                         /\ trojan_verilog' = fragment
                         /\ modified_netlist' = modified
                         /\ UNCHANGED output_files
                    ELSE
                    /\ trojan_verilog' = fragment
                    /\ modified_netlist' = modified
                    /\ output_files' = (output_file :> modified) @@ written
                    /\ result' =
                          [status |-> "returned", exception |-> "",
                           warnings |-> <<>>,
                           output_file |-> <<output_file>>,
                           metadata |->
                              [id |-> id,
                               output_file |-> <<output_file>>,
                               trigger_type |-> trigger_type,
                               payload_type |-> payload_type,
                               trigger_nets |-> NetNames(trigger_nets),
                               trigger_scores |->
                                  [k \in 1..Len(trigger_nets) |->
                                      trigger_nets[k][2]],
                               payload_net |->
                                  IF payload_net # <<>>
                                  THEN <<payload_net[1][1]>> ELSE <<>>,
                               payload_score |->
                                  IF payload_net # <<>>
                                  THEN <<payload_net[1][2]>> ELSE <<>>]]

InsertTrojan ==
    /\ pc = "insert"
    /\ trojan_counter < MaxInsertions
    /\ \E target_nets \in TargetLists, trigger_type \in TriggerTypes,
          payload_type \in PayloadTypes, write_ok \in BOOLEAN :
             insert_trojan(target_nets, trigger_type, payload_type, write_ok)
    /\ UNCHANGED <<scoap_vars, pc, netlist_content, hw_vars, fn_vars>>

NextInsert == InsertTrojan

SpecInsert == InitInsert /\ [][NextInsert]_vars

(***************************************************************************)
(* insert_multiple_trojans: one inserter, num_trojans requests, the kinds  *)
(* of every request drawn by random.choice.                                *)
(***************************************************************************)
BatchTargetLists ==
    {[k \in 1..len |-> Site(k)] : len \in {0, 1, 10, 11, 13, MaxBatchTargets}}

\* the window started at (i * 10) % max(1, len(target_nets))
TrojanNets_ModLength(target_nets, i) ==
    LET span == Len(target_nets)
        start_idx == (i * 10) % (IF span > 1 THEN span ELSE 1)
        stop == IF start_idx + 10 < Len(target_nets) THEN start_idx + 10
                ELSE Len(target_nets)
    IN  SubSeq(target_nets, start_idx + 1, stop)

\* target_nets[start_idx:start_idx + 10] of request i
TrojanNets(target_nets, i) ==
    LET span == Len(target_nets) - 10
        start_idx == (i * 10) % (IF span > 1 THEN span ELSE 1)
        stop == IF start_idx + 10 < Len(target_nets) THEN start_idx + 10
                ELSE Len(target_nets)
    IN  SubSeq(target_nets, start_idx + 1, stop)

InitBatch ==
    /\ ScoapIdle
    /\ HwIdle
    /\ pc = "batch"
    /\ netlist_content \in InsertTexts
    /\ trojan_counter = 0
    /\ output_files = <<>>
    /\ call = NoCall
    /\ trojan_verilog = <<>>
    /\ modified_netlist = <<>>
    /\ result = NoResult
    /\ fn_args \in [target_nets : BatchTargetLists,
                    num_trojans : 0..MaxTrojans]
    /\ fn_return = <<>>
    /\ BatchIdle

\* one turn of the loop over range(num_trojans)
BatchRequest ==
    /\ pc = "batch"
    /\ batch_i < fn_args.num_trojans
    /\ batch_i' = batch_i + 1
    /\ \E trigger_type \in TriggerTypes, payload_type \in PayloadTypes,
          write_ok \in BOOLEAN :
          LET trojan_nets == TrojanNets(fn_args.target_nets, batch_i)
          IN  IF trojan_nets = <<>>
              THEN UNCHANGED <<inserter_vars, results>>
              ELSE /\ insert_trojan(trojan_nets, trigger_type, payload_type,
                                    write_ok)
                   /\ results' =
                         IF result'.status = "returned"
                         THEN Append(results, <<result'.output_file[1],
                                                result'.metadata>>)
                         ELSE results
                   /\ UNCHANGED netlist_content
    /\ UNCHANGED <<scoap_vars, pc, hw_vars, fn_args, fn_return,
                   metadata_file>>

\* after the loop: the manifest is written and results returned
BatchReturn ==
    /\ pc = "batch"
    /\ batch_i = fn_args.num_trojans
    /\ \E write_ok \in BOOLEAN :
          IF write_ok
          THEN /\ metadata_file' =
                     <<[num_trojans |-> Len(results),
                        insertions |-> [k \in 1..Len(results) |->
                                           results[k][2]]]>>
               /\ fn_return' = [results |-> results]
               /\ pc' = "batch_returned"
          ELSE /\ pc' = "batch_raised"
               /\ UNCHANGED <<metadata_file, fn_return>>
    /\ UNCHANGED <<scoap_vars, inserter_vars, hw_vars, fn_args, batch_i,
                   results>>

NextBatch == BatchRequest \/ BatchReturn

SpecBatch == InitBatch /\ [][NextBatch]_vars

(***************************************************************************)
(* verify_trojans.verify_single_netlist, run on the files the inserter     *)
(* wrote.  A text is scanned token by token; the line and percentage       *)
(* counts of the report are left out.                                      *)
(***************************************************************************)
\* the places of the text where the scanned string stands
Found(content, token) == {k \in 1..Len(content) : content[k] = token}

\* re.findall(r'// Trigger: (\w+), Payload: (\w+)', content)
KindLines(content) ==
    SelectSeq(content, LAMBDA token :
        token.text = "  // Trigger: {trigger_type}, Payload: {payload_type}")

\* the report counting the end markers beside the start markers
verify_single_netlist_BothMarkers(content) ==
    [has_trojan |-> Found(content, StartMarker) # {},
     num_trojans |-> Cardinality(Found(content, StartMarker))
                     + Cardinality(Found(content, EndMarker)),
     trojans |-> <<>>]

verify_single_netlist(content) ==
    LET has_start_marker == Found(content, StartMarker) # {}
        has_end_marker == Found(content, EndMarker) # {}
        matches == KindLines(content)
    IN  [has_trojan |-> has_start_marker /\ has_end_marker,
         num_trojans |-> Cardinality(Found(content, StartMarker)),
         trojans |-> [k \in 1..Len(matches) |->
                         [trigger_type |-> matches[k].args[1],
                          payload_type |-> matches[k].args[2]]]]

\* the verification of the file just written, run after the insertion; a
\* file written is not written again
VerifySingleNetlist ==
    /\ pc = "insert"
    /\ pc' = "verified"
    /\ \E netlist_file \in {result.output_file[k] :
                                k \in 1..Len(result.output_file)} :
          /\ fn_args' = <<netlist_file>>
          /\ fn_return' = verify_single_netlist(output_files[netlist_file])
    /\ UNCHANGED <<scoap_vars, inserter_vars, hw_vars, batch_vars>>

NextRoundTrip == InsertTrojan \/ VerifySingleNetlist

SpecRoundTrip == InitInsert /\ [][NextRoundTrip]_vars

(***************************************************************************)
(* The generated circuit.  The text of the fragment is read as Verilog:    *)
(* the nets are one bit wide and two-valued; the always block runs at a    *)
(* rising clock edge and at a rising reset edge.                           *)
(***************************************************************************)
TwoBits == <<"00", "01", "10", "11">>

\* the value of 2'b<bits>
BitsValue(bits) == CHOOSE k \in 0..3 : TwoBits[k + 1] = bits

\* the tokens of the fragment written from one format string
TokensOf(fragment, text) ==
    {fragment[k] : k \in {j \in 1..Len(fragment) : fragment[j].text = text}}

TheToken(fragment, text) == CHOOSE tok \in TokensOf(fragment, text) : TRUE

CombinationalAssign == "  assign trojan_trigger_{id} = {' & '.join(nets)};"
SequentialAssign ==
    "  assign trojan_trigger_{id} = (trojan_state_{id} == 2'b{fire});"
CounterAssign ==
    "  assign trojan_trigger_{id} = (trojan_counter_{id} == 16'hFFFF);"
CaseArmText ==
    "        2'b{state}: if ({net}) trojan_state_{id} <= 2'b{next};"
CaseDefaultText == "        default: trojan_state_{id} <= 2'b{next};"
StateResetText == "      trojan_state_{id} <= 2'b{reset};"
CounterEnableText == "    else if ({net})"
LeakageAssign ==
    "  assign trojan_payload_{id} = trojan_trigger_{id} ? {net} : 1'b0;"
DosAssign ==
    "  assign trojan_payload_{id} = trojan_trigger_{id} ? 1'b0 : {net};"
CorruptionAssign ==
    "  assign trojan_payload_{id} = trojan_trigger_{id} ? ~{net} : {net};"

\* the always block with a state that has no case arm keeping its value
StateAfterEdge_HoldsWithoutArm(fragment, state, reset, values) ==
    IF TokensOf(fragment, StateResetText) = {} THEN state
    ELSE IF reset THEN BitsValue(TheToken(fragment, StateResetText).args[1])
    ELSE LET arms == {tok \in TokensOf(fragment, CaseArmText) :
                         BitsValue(tok.args[1]) = state}
         IN  IF arms = {} THEN state
             ELSE LET arm == CHOOSE tok \in arms : TRUE
                  IN  IF values[arm.args[2]] THEN BitsValue(arm.args[3])
                      ELSE state

\* trojan_state after the always block has run
StateAfterEdge(fragment, state, reset, values) ==
    IF TokensOf(fragment, StateResetText) = {} THEN state
    ELSE IF reset THEN BitsValue(TheToken(fragment, StateResetText).args[1])
    ELSE LET arms == {tok \in TokensOf(fragment, CaseArmText) :
                         BitsValue(tok.args[1]) = state}
         IN  IF arms = {}
             THEN BitsValue(TheToken(fragment, CaseDefaultText).args[1])
             ELSE LET arm == CHOOSE tok \in arms : TRUE
                  IN  IF values[arm.args[2]] THEN BitsValue(arm.args[3])
                      ELSE state

\* trojan_counter after the always block has run
CounterAfterEdge(fragment, counter, reset, values) ==
    IF TokensOf(fragment, CounterEnableText) = {} THEN counter
    ELSE IF reset THEN 0
    ELSE IF values[TheToken(fragment, CounterEnableText).args[1]]
    THEN (counter + 1) % (2 ^ CounterWidth)
    ELSE counter

\* the wire trojan_trigger_<id>
TriggerOf(fragment, state, counter, values) ==
    IF TokensOf(fragment, CombinationalAssign) # {}
    THEN \A net \in Range(TheToken(fragment, CombinationalAssign).args) :
            values[net]
    ELSE IF TokensOf(fragment, SequentialAssign) # {}
    THEN state = BitsValue(TheToken(fragment, SequentialAssign).args[1])
    ELSE counter = 2 ^ CounterWidth - 1

\* the wire trojan_payload_<id>
PayloadOf(fragment, trigger, values) ==
    IF TokensOf(fragment, LeakageAssign) # {}
    THEN IF trigger THEN values[TheToken(fragment, LeakageAssign).args[1]]
         ELSE FALSE
    ELSE IF TokensOf(fragment, DosAssign) # {}
    THEN IF trigger THEN FALSE
         ELSE values[TheToken(fragment, DosAssign).args[1]]
    ELSE IF trigger
         THEN ~values[TheToken(fragment, CorruptionAssign).args[1]]
         ELSE values[TheToken(fragment, CorruptionAssign).args[1]]

trojan_trigger ==
    TriggerOf(trojan_verilog, trojan_state, trojan_counter_reg, hw_values)

trojan_payload == PayloadOf(trojan_verilog, trojan_trigger, hw_values)

\* the trigger nets of the call, by rank
TriggerNetNames == NetNames(TriggerNets(call.target_nets))

\* the nets of the design the Trojan of the call is wired to: its trigger
\* nets, the payload net being the first of them
WiredNets == Range(TriggerNetNames)

\* the trigger nets seen asserted in ranked order, one per clock edge
ObservedAfterEdge(seen, reset, values) ==
    IF reset \/ call.trigger_type # "sequential" THEN 0
    ELSE IF seen < 0 THEN seen
    ELSE IF seen < Len(TriggerNetNames) /\ values[TriggerNetNames[seen + 1]]
    THEN seen + 1
    ELSE seen

\* a Trojan generated for one call at power-on: a register the fragment
\* declares holds any value, the inputs are low
InitCircuit(target_lists, trigger_types, payload_types) ==
    /\ ScoapIdle
    /\ FnIdle
    /\ pc = "circuit"
    /\ netlist_content = <<>>
    /\ trojan_counter = 1
    /\ output_files = <<>>
    /\ modified_netlist = <<>>
    /\ result = NoResult
    /\ \E target_nets \in target_lists, trigger_type \in trigger_types,
          payload_type \in payload_types :
          /\ call = [target_nets |-> target_nets,
                     trigger_type |-> trigger_type,
                     payload_type |-> payload_type]
          /\ trojan_verilog =
                _generate_trojan_logic(TriggerNets(target_nets),
                                       PayloadNet(target_nets),
                                       trigger_type, payload_type, 1)
    /\ hw_values = [net \in WiredNets |-> FALSE]
    /\ rst = FALSE
    /\ trojan_state \in
          (IF call.trigger_type = "sequential" THEN 0..3 ELSE {0})
    /\ trojan_counter_reg \in
          (IF call.trigger_type = "counter"
           THEN 0..(2 ^ CounterWidth - 1) ELSE {0})
    /\ observed = (IF call.trigger_type = "sequential" THEN -1 ELSE 0)

\* posedge clk, the inputs at `values` and `reset`
ClockEdge ==
    /\ pc = "circuit"
    /\ \E values \in [WiredNets -> BOOLEAN],
          reset \in BOOLEAN :
          /\ hw_values' = values
          /\ rst' = reset
          /\ trojan_state' =
                StateAfterEdge(trojan_verilog, trojan_state, reset, values)
          /\ trojan_counter_reg' =
                CounterAfterEdge(trojan_verilog, trojan_counter_reg, reset,
                                 values)
          /\ observed' = ObservedAfterEdge(observed, reset, values)
    /\ UNCHANGED <<scoap_vars, pc, inserter_vars, fn_vars>>

\* posedge rst, between two clock edges
ResetEdge ==
    /\ pc = "circuit"
    /\ ~rst
    /\ rst' = TRUE
    /\ trojan_state' =
          StateAfterEdge(trojan_verilog, trojan_state, TRUE, hw_values)
    /\ trojan_counter_reg' =
          CounterAfterEdge(trojan_verilog, trojan_counter_reg, TRUE,
                           hw_values)
    /\ observed' = 0
    /\ UNCHANGED <<scoap_vars, pc, inserter_vars, hw_values, fn_vars>>

NextCircuit == ClockEdge \/ ResetEdge

InitTrigger ==
    InitCircuit({t \in TargetLists : t # <<>>},
                {"combinational", "sequential"}, PayloadTypes)

\* the combinational and the sequential trigger
SpecTrigger == InitTrigger /\ [][NextCircuit]_vars

InitCounter ==
    InitCircuit({SubSeq(RankedSites, 1, 2)}, {"counter"}, {"leakage"})

\* the counter trigger
SpecCounter == InitCounter /\ [][NextCircuit]_vars

(***************************************************************************)
(* _gate_controllability called on its own: any gate kind, any non-empty   *)
(* list of input costs, input_c0 and input_c1 of one length (the caller    *)
(* appends to both for every input).                                       *)
(***************************************************************************)
\* the costs an input may have: the baseline 1, 2, 3, and the sentinel
RuleCosts == {Num(1), Num(2), Num(3), Inf}

RuleInputLists(max_inputs) ==
    UNION {[1..len -> RuleCosts] : len \in 1..max_inputs}

InitRule ==
    /\ ScoapIdle
    /\ InserterIdle
    /\ HwIdle
    /\ pc = "rule"
    /\ \E gate_type \in GateType, input_c0 \in RuleInputLists(MaxRuleInputs),
          input_c1 \in RuleInputLists(MaxRuleInputs) :
          /\ Len(input_c0) = Len(input_c1)
          /\ fn_args = [gate_type |-> gate_type, input_c0 |-> input_c0,
                        input_c1 |-> input_c1]
    /\ fn_return = <<>>
    /\ BatchIdle

ApplyRule ==
    /\ pc = "rule"
    /\ pc' = "ruled"
    /\ fn_return' = _gate_controllability(fn_args.gate_type, fn_args.input_c0,
                                          fn_args.input_c1)
    /\ UNCHANGED <<scoap_vars, inserter_vars, hw_vars, fn_args, batch_vars>>

NextRule == ApplyRule

SpecRule == InitRule /\ [][NextRule]_vars

(***************************************************************************)
(* _classify_gate_type.  A cell name is a sequence of characters.          *)
(***************************************************************************)
\* str.upper() on the letters used
UpperChar(c) ==
    CASE c = "a" -> "A" [] c = "n" -> "N" [] c = "d" -> "D" [] c = "o" -> "O"
      [] c = "r" -> "R" [] c = "x" -> "X" [] OTHER -> c

Upper(str) == [k \in 1..Len(str) |-> UpperChar(str[k])]

\* keyword in str
Contains(str, keyword) ==
    \E k \in 0..(Len(str) - Len(keyword)) :
        SubSeq(str, k + 1, k + Len(keyword)) = keyword

\* the test for NOR placed before the test for OR
_classify_gate_type_NorFirst(gate_type_str) ==
    LET gate_str == Upper(gate_type_str)
    IN  IF Contains(gate_str, <<"N", "O", "R">>) THEN "NOR"
        ELSE IF Contains(gate_str, <<"O", "R">>) THEN "OR"
        ELSE IF Contains(gate_str, <<"A", "N", "D">>) THEN "AND"
        ELSE "UNKNOWN"

_classify_gate_type(gate_type_str) ==
    LET gate_str == Upper(gate_type_str)
        has(keyword) == Contains(gate_str, keyword)
    IN  IF has(<<"A", "N", "D">>) /\ ~has(<<"N", "A", "N", "D">>) THEN "AND"
        ELSE IF has(<<"N", "A", "N", "D">>) THEN "NAND"
        ELSE IF /\ has(<<"O", "R">>)
                /\ ~has(<<"N", "O", "R">>)
                /\ ~has(<<"X", "O", "R">>) THEN "OR"
        ELSE IF has(<<"N", "O", "R">>) /\ ~has(<<"X", "N", "O", "R">>)
        THEN "NOR"
        ELSE IF has(<<"X", "O", "R">>) /\ ~has(<<"X", "N", "O", "R">>)
        THEN "XOR"
        ELSE IF has(<<"X", "N", "O", "R">>) THEN "XNOR"
        ELSE IF has(<<"N", "O", "T">>) \/ has(<<"I", "N", "V">>) THEN "NOT"
        ELSE IF has(<<"B", "U", "F">>) THEN "BUF"
        ELSE IF \/ has(<<"D", "F", "F">>)
                \/ has(<<"D", "F", "F", "R">>)
                \/ has(<<"D", "F", "F", "S">>) THEN "DFF"
        ELSE IF has(<<"M", "U", "X">>) THEN "MUX"
        ELSE "UNKNOWN"

\* the pieces cell names are put together from
NamePieces ==
    {<<"N">>, <<"X">>, <<"A", "N", "D">>, <<"O", "R">>, <<"N", "O", "T">>,
     <<"I", "N", "V">>, <<"B", "U", "F">>, <<"D", "F", "F">>,
     <<"M", "U", "X">>, <<"n", "a", "n", "d">>, <<"x", "o", "r">>,
     <<"2">>, <<"_">>, <<"L", "A", "T">>}

RECURSIVE Flatten(_)
Flatten(pieces) ==
    IF pieces = <<>> THEN <<>> ELSE Head(pieces) \o Flatten(Tail(pieces))

CellNames(max_pieces) ==
    {Flatten(pieces) : pieces \in SeqsUpTo(NamePieces, max_pieces)}

InitClassify ==
    /\ ScoapIdle
    /\ InserterIdle
    /\ HwIdle
    /\ pc = "classify"
    /\ fn_args \in CellNames(MaxNamePieces)
    /\ fn_return = <<>>
    /\ BatchIdle

Classify ==
    /\ pc = "classify"
    /\ pc' = "classified"
    /\ fn_return' = <<_classify_gate_type(fn_args)>>
    /\ UNCHANGED <<scoap_vars, inserter_vars, hw_vars, fn_args, batch_vars>>

NextClassify == Classify

SpecClassify == InitClassify /\ [][NextClassify]_vars

(***************************************************************************)
(* FeatureExtractor._compile_features, on a net table as the analysis      *)
(* leaves it: a primary input has both controllabilities at the baseline,  *)
(* a primary output has observability 0, and any other cost is some cost   *)
(* up to and beyond the ceiling or the sentinel.  The flags is_input and   *)
(* is_output of a net are its membership of the parser's sets.  The        *)
(* structural counts copied into a record are left out.                    *)
(***************************************************************************)
AnalysedCosts == {Num(7), Num(FeatureCeiling), Num(150), Inf}

\* what the analysis can leave on one net of the role
AnalysedNet(role) ==
    [role : {role},
     c0 : IF role = "input" THEN {Num(1)} ELSE AnalysedCosts,
     c1 : IF role = "input" THEN {Num(1)} ELSE AnalysedCosts,
     obs : IF role = "output" THEN {Num(0)} ELSE AnalysedCosts]

InitFeatures ==
    /\ \E table \in [0..1 -> AnalysedNet("input") \cup AnalysedNet("output")
                               \cup AnalysedNet("internal")] :
          /\ nets = DOMAIN table
          /\ primary_inputs = {net \in 0..1 : table[net].role = "input"}
          /\ primary_outputs = {net \in 0..1 : table[net].role = "output"}
          /\ controllability_0 = [net \in 0..1 |-> table[net].c0]
          /\ controllability_1 = [net \in 0..1 |-> table[net].c1]
          /\ observability = [net \in 0..1 |-> table[net].obs]
    /\ gates = <<>>
    /\ iteration = 0
    /\ gate_index = 1
    /\ changed = FALSE
    /\ passes = 0
    /\ ctrl_passes = 0
    /\ raised = FALSE
    /\ pc = "compile"
    /\ InserterIdle
    /\ HwIdle
    /\ FnIdle

\* the cost divided by the ceiling, without the clamp
Normalized_NoClamp(value) == DivBy(value, FeatureCeiling)

\* min(value, 100) / 100.0
Normalized(value) == DivBy(Min2(value, Num(FeatureCeiling)), FeatureCeiling)

\* the test skipping the primary inputs alone
Skipped_InputsOnly(net) == net \in primary_inputs

\* if net.is_input or net.is_output: continue
Skipped(net) == net \in primary_inputs \/ net \in primary_outputs

\* self.features[net_name] = {...}
FeatureRecord(net) ==
    LET c0_norm == Normalized(controllability_0[net])
        c1_norm == Normalized(controllability_1[net])
        obs_norm == Normalized(observability[net])
    IN  [net_name |-> net,
         controllability_0 |-> c0_norm,
         controllability_1 |-> c1_norm,
         observability |-> obs_norm,
         is_input |-> net \in primary_inputs,
         is_output |-> net \in primary_outputs,
         avg_controllability |-> DivBy(Plus(c0_norm, c1_norm), 2),
         testability |-> Plus(DivBy(Plus(c0_norm, c1_norm), 2), obs_norm),
         stealth_score |-> Num(0)]

_compile_features ==
    /\ pc = "compile"
    /\ pc' = "compiled"
    /\ fn_return' = [net \in {n \in nets : ~Skipped(n)} |-> FeatureRecord(net)]
    /\ UNCHANGED <<scoap_vars, inserter_vars, hw_vars, fn_args, batch_vars>>

NextFeatures == _compile_features

SpecFeatures == InitFeatures /\ [][NextFeatures]_vars

(***************************************************************************)
(* NetlistParser.parse.  The text, comments removed, is read as its        *)
(* statements: the port and wire declarations and the gate instantiations  *)
(* "<cell> <instance> (.<port>(<net>), ...);".  A dictionary is the        *)
(* sequence of its (key, value) pairs in insertion order.                  *)
(***************************************************************************)
DictKeys(dict) == {dict[k][1] : k \in 1..Len(dict)}

\* dict[key] = value: a key the dictionary holds keeps its place
DictSet(dict, key, value) ==
    IF key \in DictKeys(dict)
    THEN [k \in 1..Len(dict) |->
             IF dict[k][1] = key THEN <<key, value>> ELSE dict[k]]
    ELSE Append(dict, <<key, value>>)

OutputPorts == {"Y", "Q", "QN", "Z", "ZN", "OUT"}

\* the nets of the connections on output ports (outputs) or on the others
ConnectedNets(conns, outputs) ==
    LET picked == SelectSeq(conns,
                            LAMBDA conn : (conn[1] \in OutputPorts) = outputs)
    IN  [k \in 1..Len(picked) |-> picked[k][2]]

\* _parse_ports and _parse_wires: the net table after the declarations
DeclaredNets(text) ==
    Range(text.inputs) \cup Range(text.outputs) \cup Range(text.wires)

\* _parse_gates: the gate dictionary after the first `count` statements
RECURSIVE ParsedGates(_, _)
ParsedGates(text, count) ==
    IF count = 0 THEN <<>>
    ELSE LET stmt == text.gates[count]
         IN  DictSet(ParsedGates(text, count - 1), stmt.name,
                     [gate_type |-> _classify_gate_type(stmt.cell),
                      cell_name |-> stmt.cell,
                      inputs |-> ConnectedNets(stmt.conns, FALSE),
                      outputs |-> ConnectedNets(stmt.conns, TRUE)])

\* _parse_gates: the nets the connections name, declared as they are met
MentionedNets(text) ==
    UNION {{conn[2] : conn \in Range(text.gates[k].conns)} :
              k \in 1..Len(text.gates)}

\* _build_graph: add_node of a node the graph holds updates its attributes
GraphNodes(net_table, gate_dict) ==
    [node \in net_table \cup DictKeys(gate_dict) |->
        IF node \in DictKeys(gate_dict) THEN "gate" ELSE "net"]

GraphEdges(net_table, gate_dict) ==
    UNION {{<<net, gate_dict[k][1]>> :
                net \in Range(gate_dict[k][2].inputs) \cap net_table}
           \cup {<<gate_dict[k][1], net>> :
                net \in Range(gate_dict[k][2].outputs) \cap net_table} :
              k \in 1..Len(gate_dict)}

parse(text) ==
    LET net_table == DeclaredNets(text) \cup MentionedNets(text)
        gate_dict == ParsedGates(text, Len(text.gates))
    IN  [nets |-> net_table,
         primary_inputs |-> Range(text.inputs),
         primary_outputs |-> Range(text.outputs),
         gates |-> gate_dict,
         nodes |-> GraphNodes(net_table, gate_dict),
         edges |-> GraphEdges(net_table, gate_dict)]

\* the texts parsed: up to max_statements two-port gates between the nets
\* n1 and n2, the instance of a gate named g1, g2 or as the net n1
InstanceNames == {"g1", "g2", "n1"}

Statements ==
    {[cell |-> cell, name |-> name, conns |-> << <<"A", a>>, <<"Y", y>> >>] :
        cell \in {<<"A", "N", "D", "2">>, <<"D", "F", "F">>},
        name \in InstanceNames, a \in {"n1", "n2"}, y \in {"n1", "n2"}}

ParsedTexts(max_statements) ==
    {[inputs |-> inputs, outputs |-> outputs, wires |-> wires,
      gates |-> stmts] :
        inputs \in {<<>>, <<"n1">>}, outputs \in {<<>>, <<"n2">>},
        wires \in {<<>>, <<"n3">>},
        stmts \in SeqsUpTo(Statements, max_statements)}

InitParse ==
    /\ ScoapIdle
    /\ InserterIdle
    /\ HwIdle
    /\ pc = "parse"
    /\ fn_args \in ParsedTexts(MaxStatements)
    /\ fn_return = <<>>
    /\ BatchIdle

Parse ==
    /\ pc = "parse"
    /\ pc' = "parsed"
    /\ fn_return' = parse(fn_args)
    /\ UNCHANGED <<scoap_vars, inserter_vars, hw_vars, fn_args, batch_vars>>

NextParse == Parse

SpecParse == InitParse /\ [][NextParse]_vars

(***************************************************************************)
(* One text parsed and analysed twice.  primary_inputs and primary_outputs *)
(* are Python sets of strings: a loop over one of them runs in an order    *)
(* that may differ from run to run, and each run is given its own.  Of the *)
(* analysis the loops over the two sets are modelled: the baseline of the  *)
(* primary inputs, the observability of the primary outputs and the logic  *)
(* depth; every other step reads dictionaries and lists, whose order is    *)
(* the order of the text.                                                  *)
(***************************************************************************)
\* the orders a loop over the set can run in
Orders(S) == {order \in [1..Cardinality(S) -> S] : Range(order) = S}

\* for name in order: if name in self.nets: table[name] = value
RECURSIVE SetEach(_, _, _)
SetEach(table, order, value) ==
    IF order = <<>> THEN table
    ELSE SetEach(IF Head(order) \in DOMAIN table
                 THEN [table EXCEPT ![Head(order)] = value] ELSE table,
                 Tail(order), value)

\* nx.shortest_path_length(graph, source, target): the edges of a shortest
\* path, the search at distance `length` with the nodes of `frontier`;
\* -1 for NetworkXNoPath
RECURSIVE ShortestPathLength(_, _, _, _, _)
ShortestPathLength(edges, frontier, seen, target, length) ==
    IF target \in frontier THEN length
    ELSE LET next == {edge[2] : edge \in {e \in edges : e[1] \in frontier}}
                     \ seen
         IN  IF next = {} THEN -1
             ELSE ShortestPathLength(edges, next, seen \cup next, target,
                                     length + 1)

\* the path length that replaces the minimum, whatever it is
ShorterDepth_Last(min_depth, path_len) == path_len

\* min_depth = min(min_depth, path_len), -1 standing for float('inf')
ShorterDepth(min_depth, path_len) ==
    IF min_depth = -1 \/ path_len < min_depth THEN path_len ELSE min_depth

\* for pi in self.parser.primary_inputs: ... min_depth = min(...)
RECURSIVE MinDepth(_, _, _, _)
MinDepth(graph, net_name, pi_order, min_depth) ==
    IF pi_order = <<>> THEN min_depth
    ELSE LET pi == Head(pi_order)
             path_len ==
                 IF pi \in DOMAIN graph.nodes /\ net_name \in DOMAIN graph.nodes
                 THEN ShortestPathLength(graph.edges, {pi}, {pi}, net_name, 0)
                 ELSE -1
         IN  MinDepth(graph, net_name, Tail(pi_order),
                      IF path_len = -1 THEN min_depth
                      ELSE ShorterDepth(min_depth, path_len))

\* _compute_graph_features: net.logic_depth
logic_depth(graph, net_name, pi_order) ==
    IF net_name \in graph.primary_inputs THEN 0
    ELSE LET min_depth == MinDepth(graph, net_name, pi_order, -1)
         IN  IF min_depth # -1 THEN min_depth ELSE 0

\* what the loops over the two sets leave on the nets
extract_all_features(graph, order) ==
    [controllability |->
        SetEach([net \in graph.nets |-> Inf], order.pi, Num(1)),
     observability |->
        SetEach([net \in graph.nets |-> Inf], order.po, Num(0)),
     logic_depth |->
        [net \in graph.nets |-> logic_depth(graph, net, order.pi)]]

\* the texts analysed twice: up to max_buffers buffers g1, g2, ... between
\* the nets n1 .. n4, one or two inputs, one or two outputs
BufferTexts(max_buffers) ==
    LET wires == {"n1", "n2", "n3", "n4"}
        buffers == SeqsUpTo(wires \X wires, max_buffers)
    IN  {[inputs |-> inputs, outputs |-> outputs, wires |-> <<>>,
          gates |-> [k \in 1..Len(pairs) |->
                        [cell |-> <<"B", "U", "F">>,
                         name |-> "g" \o ToString(k),
                         conns |-> << <<"A", pairs[k][1]>>,
                                      <<"Y", pairs[k][2]>> >>]]] :
            inputs \in {<<"n1">>, <<"n1", "n2">>},
            outputs \in {<<"n4">>, <<"n3", "n4">>},
            pairs \in buffers}

InitTwice ==
    /\ ScoapIdle
    /\ InserterIdle
    /\ HwIdle
    /\ BatchIdle
    /\ pc = "extract"
    /\ \E text \in BufferTexts(MaxBuffers) :
          \E first_pi, second_pi \in Orders(Range(text.inputs)),
             first_po, second_po \in Orders(Range(text.outputs)) :
                fn_args = [text |-> text,
                           orders |-> <<[pi |-> first_pi, po |-> first_po],
                                        [pi |-> second_pi, po |-> second_po]>>]
    /\ fn_return = <<>>

\* the text parsed and analysed, and then once more
ExtractTwice ==
    /\ pc = "extract"
    /\ pc' = "extracted"
    /\ fn_return' =
          [run \in 1..2 |->
              LET graph == parse(fn_args.text)
              IN  [graph |-> graph,
                   features |-> extract_all_features(graph,
                                                     fn_args.orders[run])]]
    /\ UNCHANGED <<scoap_vars, inserter_vars, hw_vars, fn_args, batch_vars>>

NextTwice == ExtractTwice

SpecTwice == InitTwice /\ [][NextTwice]_vars

(***************************************************************************)
(* Graph notions used by the properties.                                   *)
(***************************************************************************)
\* the nets one gate away from a net of S
Successors(S) ==
    {net \in nets : \E k \in 1..Len(gates) :
        /\ net \in Range(gates[k].outputs)
        /\ Range(gates[k].inputs) \cap S # {}}

\* the nets reachable from S by a directed path, S included
RECURSIVE ReachableFrom(_)
ReachableFrom(S) ==
    LET next == S \cup Successors(S)
    IN  IF next = S THEN S ELSE ReachableFrom(next)

\* some flip-flop lies on a directed cycle
HasFlipFlopCycle ==
    \E k \in 1..Len(gates) :
        /\ gates[k].gate_type = "DFF"
        /\ \E o \in Range(gates[k].outputs) :
              Range(gates[k].inputs) \cap ReachableFrom({o}) # {}

Finite(net) == ~IsInf(controllability_0[net]) /\ ~IsInf(controllability_1[net])

ControllabilityDone == pc \in {"observability", "observability_loop", "done"}

(***************************************************************************)
(* C1.  From the initialisation of the analysis on, through every gate     *)
(* update of the controllability pass and after the analysis, every        *)
(* primary input has controllability-0 = controllability-1 = 1.            *)
(***************************************************************************)
C1_PrimaryInputsKeepBaseline ==
    pc # "scoap" =>
        \A pi \in primary_inputs \cap nets :
            /\ controllability_0[pi] = Num(1)
            /\ controllability_1[pi] = Num(1)

\* the analysis is over and some gate with inputs drives a primary input
C1_Witness ==
    /\ pc = "done"
    /\ \E k \in 1..Len(gates) :
          /\ gates[k].inputs # <<>>
          /\ Range(gates[k].outputs) \cap primary_inputs # {}

(***************************************************************************)
(* C2.  From the start of the observability pass on, through every gate    *)
(* update and after the analysis, every primary output has                 *)
(* observability 0, also when it is an input of a gate.                    *)
(***************************************************************************)
C2_PrimaryOutputsKeepZero ==
    pc \in {"observability_loop", "done"} =>
        \A po \in primary_outputs \cap nets : observability[po] = Num(0)

\* the analysis is over and a primary output is an input of a gate whose
\* output has been reached, so that the gate has propagated onto it
C2_Witness ==
    /\ pc = "done"
    /\ \E k \in 1..Len(gates) :
          /\ Range(gates[k].inputs) \cap primary_outputs # {}
          /\ \E o \in Range(gates[k].outputs) : ~IsInf(observability[o])

(***************************************************************************)
(* C3.  Neither pass takes more than 10 full passes over the gates, no     *)
(* exception leaves the analysis, and until it is done the analysis always *)
(* has a next step (a gate of the running pass, or the end of the pass).   *)
(***************************************************************************)
C3_PassesCappedNoRaise ==
    /\ passes <= MaxIterations
    /\ ctrl_passes <= MaxIterations
    /\ iteration < MaxIterations
    /\ ~raised
    /\ pc \in {"scoap", "controllability", "observability",
               "observability_loop", "done"}
    /\ gate_index \in 1..(Len(gates) + 1)

\* a graph with a flip-flop cycle on which the controllability pass ran into
\* the cap, analysed to the end
C3_Witness ==
    /\ pc = "done"
    /\ HasFlipFlopCycle
    /\ ctrl_passes = MaxIterations

(***************************************************************************)
(* C4.  After the controllability pass on a graph with a flip-flop         *)
(* feedback cycle, every net reachable from a primary input by a directed  *)
(* path has finite controllability-0 and controllability-1.                *)
(***************************************************************************)
C4_ReachableIsFinite ==
    (ControllabilityDone /\ HasFlipFlopCycle) =>
        \A net \in ReachableFrom(primary_inputs \cap nets) : Finite(net)

\* d = a AND q, q = DFF(d), analysed to the end: d and q are reachable from
\* the input a and are still at the sentinel
C4_Witness ==
    /\ pc = "done"
    /\ gates = <<Gate("AND", <<0, 2>>, <<1>>), Gate("DFF", <<1>>, <<2>>)>>
    /\ {1, 2} \subseteq ReachableFrom(primary_inputs \cap nets)
    /\ ~Finite(1)
    /\ ~Finite(2)

(***************************************************************************)
(* Notions of text used by the properties.                                 *)
(***************************************************************************)
\* where the closing keyword stands in a text
KeywordPositions(content) ==
    {k \in 1..Len(content) : content[k] = EndModule}

\* how often a token stands in a text
Count(token, content) ==
    Cardinality({k \in 1..Len(content) : content[k] = token})

\* where a piece of text stands in a text: the offsets before its copies
Occurrences(piece, content) ==
    {k \in 0..(Len(content) - Len(piece)) :
        SubSeq(content, k + 1, k + Len(piece)) = piece}

\* the weaver has returned for a source text with exactly one closing keyword
WovenAtOneKeyword ==
    pc = "woven" /\ Cardinality(KeywordPositions(netlist_content)) = 1

(***************************************************************************)
(* C5, as claimed.  For a source text with exactly one closing keyword the *)
(* weaver returns prefix + fragment + suffix, prefix the text before the   *)
(* keyword and suffix the text from the keyword on, and the fragment       *)
(* stands exactly once in the result, immediately before the keyword.      *)
(***************************************************************************)
C5_PrefixFragmentSuffix ==
    WovenAtOneKeyword =>
        LET pos == CHOOSE k \in KeywordPositions(netlist_content) : TRUE
            prefix == SubSeq(netlist_content, 1, pos - 1)
            suffix == SubSeq(netlist_content, pos, Len(netlist_content))
        IN  /\ modified_netlist = prefix \o trojan_verilog \o suffix
            /\ Occurrences(trojan_verilog, modified_netlist) = {Len(prefix)}

(***************************************************************************)
(* C5, amended.  For a source text with exactly one closing keyword the    *)
(* weaver returns prefix + fragment + line break + suffix: the text before *)
(* the keyword and the text from the keyword on are unchanged, the         *)
(* fragment stands exactly once in the result, right after the prefix, one *)
(* line break stands between it and the keyword, and the result holds one  *)
(* start marker and one end marker more than the source text.              *)
(***************************************************************************)
C5_PrefixFragmentBreakSuffix ==
    WovenAtOneKeyword =>
        LET pos == CHOOSE k \in KeywordPositions(netlist_content) : TRUE
            prefix == SubSeq(netlist_content, 1, pos - 1)
            suffix == SubSeq(netlist_content, pos, Len(netlist_content))
            end == Len(prefix) + Len(trojan_verilog)
        IN  /\ Len(modified_netlist) = Len(netlist_content) + Len(trojan_verilog) + 1
            /\ SubSeq(modified_netlist, 1, Len(prefix)) = prefix
            /\ Occurrences(trojan_verilog, modified_netlist) = {Len(prefix)}
            /\ modified_netlist[end + 1] = NL
            /\ modified_netlist[end + 2] = EndModule
            /\ SubSeq(modified_netlist, end + 2, Len(modified_netlist)) = suffix
            /\ Count(StartMarker, modified_netlist) =
                  Count(StartMarker, netlist_content) + 1
            /\ Count(EndMarker, modified_netlist) =
                  Count(EndMarker, netlist_content) + 1

\* a fragment woven into a text that holds something before its one keyword,
\* something after it and a start marker of its own
C5_Witness ==
    /\ WovenAtOneKeyword
    /\ \E pos \in KeywordPositions(netlist_content) :
          1 < pos /\ pos < Len(netlist_content)
    /\ Count(StartMarker, netlist_content) > 0
    /\ trojan_verilog # <<>>

(***************************************************************************)
(* C6.  A call of insert_trojan with no candidate net, for any trigger     *)
(* kind and any payload kind, ends in the "insufficient sites" failure; no *)
(* Trojan text is generated and no modified netlist is written.            *)
(***************************************************************************)
C6_NoSitesIsDistinguishedFailure ==
    [][(trojan_counter' # trojan_counter /\ call'.target_nets = <<>>) =>
          /\ result'.status = "raised"
          /\ result'.exception = "InsufficientSites"
          /\ trojan_verilog' = <<>>
          /\ output_files' = output_files]_vars

\* a call with no candidate net has returned a descriptor and written a file
\* whose trigger is an assignment of nothing
C6_Witness ==
    /\ call.target_nets = <<>>
    /\ result.status = "returned"
    /\ result.output_file # <<>>
    /\ result.output_file[1] \in DOMAIN output_files
    /\ \E k \in 1..Len(trojan_verilog) :
          /\ trojan_verilog[k].text = CombinationalAssign
          /\ trojan_verilog[k].args = <<>>

(***************************************************************************)
(* C7.  In a combinational Trojan generated for exactly 3 trigger nets the *)
(* trigger signal is asserted exactly when all 3 nets are 1, whatever the  *)
(* values of the nets.                                                     *)
(***************************************************************************)
C7_CombinationalTriggerIsConjunction ==
    (call.trigger_type = "combinational" /\ Len(call.target_nets) >= 3) =>
        (trojan_trigger <=>
            /\ hw_values[call.target_nets[1][1]]
            /\ hw_values[call.target_nets[2][1]]
            /\ hw_values[call.target_nets[3][1]])

\* the three nets are 1 and the trigger is asserted
C7_Witness ==
    /\ pc = "circuit"
    /\ call.trigger_type = "combinational"
    /\ Len(call.target_nets) >= 3
    /\ \A k \in 1..3 : hw_values[call.target_nets[k][1]]
    /\ trojan_trigger

\* a sequential Trojan that has been reset since power-on
SequentialAfterReset ==
    pc = "circuit" /\ call.trigger_type = "sequential" /\ observed >= 0

(***************************************************************************)
(* C8, as claimed.  The sequential machine is at the initial state on      *)
(* reset; at a clock edge it advances by one state when the trigger net of *)
(* its state is asserted and holds its state otherwise; the trigger is     *)
(* asserted only in the firing state, and the machine is in the firing     *)
(* state only when all trigger nets have been seen asserted in ranked      *)
(* order since the last reset.                                             *)
(***************************************************************************)
C8_AdvanceOrHold ==
    /\ [](SequentialAfterReset =>
            /\ rst => trojan_state = 0
            /\ trojan_trigger => trojan_state = 3
            /\ trojan_state = 3 => observed = Len(TriggerNetNames))
    /\ [][(SequentialAfterReset /\ ~rst') =>
            trojan_state' =
               IF /\ trojan_state < Len(TriggerNetNames)
                  /\ hw_values'[TriggerNetNames[trojan_state + 1]]
               THEN trojan_state + 1
               ELSE trojan_state]_vars

(***************************************************************************)
(* C8, amended.  The sequential machine is at the initial state on reset;  *)
(* at a clock edge outside reset, in a state that has a trigger net (state *)
(* k below the number of trigger nets) it advances by one state when that  *)
(* net is asserted and holds its state otherwise, and in a state that has  *)
(* none (the firing state 3, and with fewer than 3 trigger nets the state  *)
(* after the last net) it returns to the initial state; the trigger is     *)
(* asserted exactly in the firing state 3; after a reset the machine is    *)
(* never ahead of the trigger nets seen asserted in ranked order, so that  *)
(* it is in the firing state only when all 3 have been seen.               *)
(***************************************************************************)
C8_AdvanceHoldOrRestart ==
    /\ [](SequentialAfterReset =>
            /\ rst => trojan_state = 0
            /\ trojan_trigger <=> trojan_state = 3
            /\ trojan_state <= observed
            /\ trojan_state = 3 =>
                  observed = 3 /\ Len(TriggerNetNames) = 3)
    /\ [][(pc = "circuit" /\ call.trigger_type = "sequential" /\ ~rst') =>
            trojan_state' =
               IF trojan_state < Len(TriggerNetNames)
               THEN IF hw_values'[TriggerNetNames[trojan_state + 1]]
                    THEN trojan_state + 1
                    ELSE trojan_state
               ELSE 0]_vars

\* the machine has been reset, has seen the three nets in order and fires
C8_Witness ==
    /\ SequentialAfterReset
    /\ ~rst
    /\ trojan_state = 3
    /\ observed = 3
    /\ trojan_trigger

(***************************************************************************)
(* C9.  The counter of the counter trigger is 0 after reset; at a clock    *)
(* edge outside reset it becomes (counter + 1) mod 2^16 when the first     *)
(* trigger net is asserted and keeps its value otherwise; the trigger is   *)
(* asserted exactly when the counter is 0xFFFF = 65535.                    *)
(***************************************************************************)
C9_CounterCountsFirstNet ==
    /\ []((pc = "circuit" /\ call.trigger_type = "counter") =>
            /\ trojan_counter_reg \in 0..65535
            /\ rst => trojan_counter_reg = 0
            /\ trojan_trigger <=> trojan_counter_reg = 65535)
    /\ [][(pc = "circuit" /\ call.trigger_type = "counter" /\ ~rst') =>
            trojan_counter_reg' =
               IF hw_values'[call.target_nets[1][1]]
               THEN (trojan_counter_reg + 1) % 65536
               ELSE trojan_counter_reg]_vars

\* the counter is at its maximum with the first trigger net asserted: the
\* trigger fires and the next count wraps around
C9_Witness ==
    /\ pc = "circuit"
    /\ call.trigger_type = "counter"
    /\ ~rst
    /\ trojan_counter_reg = 65535
    /\ hw_values[call.target_nets[1][1]]
    /\ trojan_trigger

(***************************************************************************)
(* C10.  With t the trigger signal and p the payload net, the payload      *)
(* signal is: leakage, p when t and 0 otherwise; denial of service, 0 when *)
(* t and p otherwise; corruption, NOT p when t and p otherwise.            *)
(***************************************************************************)
C10_PayloadIsGatedFunction ==
    pc = "circuit" =>
        LET t == trojan_trigger
            p == hw_values[call.target_nets[1][1]]
        IN  /\ call.payload_type = "leakage" =>
                  trojan_payload = (IF t THEN p ELSE FALSE)
            /\ call.payload_type = "dos" =>
                  trojan_payload = (IF t THEN FALSE ELSE p)
            /\ call.payload_type = "corruption" =>
                  trojan_payload = (IF t THEN ~p ELSE p)

\* a corruption payload inverting its net under the trigger of a sequential
\* machine that has fired after a reset
C10_Witness ==
    /\ SequentialAfterReset
    /\ call.payload_type = "corruption"
    /\ trojan_trigger
    /\ ~hw_values[call.target_nets[1][1]]
    /\ trojan_payload

\* the last insert_trojan call has returned a descriptor
Returned == pc = "insert" /\ result.status = "returned"

LeastOf(xs) == CHOOSE v \in Range(xs) : \A w \in Range(xs) : Leq(v, w)

Add(c, k) == Plus(c, Num(k))

(***************************************************************************)
(* C12.  For every gate kind of the rule table and every non-empty list of *)
(* input costs _gate_controllability returns: AND c0 = min(c0s) + 1,       *)
(* c1 = sum(c1s) + 1; NAND c0 = sum(c1s) + 1, c1 = min(c0s) + 1; OR        *)
(* c0 = sum(c0s) + 1, c1 = min(c1s) + 1; NOR c0 = min(c1s) + 1,            *)
(* c1 = sum(c0s) + 1; XOR and XNOR c0 = c1 = min(sum(c0s), sum(c1s)) + 1;  *)
(* NOT the first input's c1 + 1 and c0 + 1; BUF the first input's costs    *)
(* + 1; DFF the first input's costs + 5.  An AND of inputs with costs 2    *)
(* and 3 has c0 = 3 and c1 = 6.                                            *)
(***************************************************************************)
C12_RuleTable ==
    pc = "ruled" =>
        LET kind == fn_args.gate_type
            c0s == fn_args.input_c0
            c1s == fn_args.input_c1
            both == LeastOf(<<SumSeq(c0s), SumSeq(c1s)>>)
            out == <<fn_return.c0, fn_return.c1>>
        IN  /\ kind = "AND" =>
                  out = <<Add(LeastOf(c0s), 1), Add(SumSeq(c1s), 1)>>
            /\ kind = "NAND" =>
                  out = <<Add(SumSeq(c1s), 1), Add(LeastOf(c0s), 1)>>
            /\ kind = "OR" =>
                  out = <<Add(SumSeq(c0s), 1), Add(LeastOf(c1s), 1)>>
            /\ kind = "NOR" =>
                  out = <<Add(LeastOf(c1s), 1), Add(SumSeq(c0s), 1)>>
            /\ kind \in {"XOR", "XNOR"} => out = <<Add(both, 1), Add(both, 1)>>
            /\ kind = "NOT" => out = <<Add(c1s[1], 1), Add(c0s[1], 1)>>
            /\ kind = "BUF" => out = <<Add(c0s[1], 1), Add(c1s[1], 1)>>
            /\ kind = "DFF" => out = <<Add(c0s[1], 5), Add(c1s[1], 5)>>
            /\ (kind = "AND" /\ c0s = <<Num(2), Num(3)>> /\ c1s = c0s) =>
                  out = <<Num(3), Num(6)>>

\* the rule of an AND gate applied to inputs with costs 3 and 2
C12_Witness ==
    /\ pc = "ruled"
    /\ fn_args.gate_type = "AND"
    /\ fn_args.input_c0 = <<Num(3), Num(2)>>
    /\ fn_args.input_c1 = <<Num(3), Num(2)>>
    /\ fn_return = [c0 |-> Num(3), c1 |-> Num(6)]

\* the nodes of the parsed graph of one type
NodesOfType(type) ==
    {node \in DOMAIN fn_return.nodes : fn_return.nodes[node] = type}

\* the net names of the parsed text
NetNamesOfText ==
    Range(fn_args.inputs) \cup Range(fn_args.outputs)
    \cup Range(fn_args.wires)
    \cup {fn_args.gates[k].conns[j][2] :
             k \in 1..Len(fn_args.gates), j \in 1..2}

(***************************************************************************)
(* C13.  Parsing a text of N gate instantiation statements and M unique    *)
(* net names yields a graph of exactly N nodes of type gate and at least M *)
(* nodes of type net, whatever the instance names and the net names.       *)
(***************************************************************************)
C13_GateAndNetNodeCounts ==
    pc = "parsed" =>
        /\ Cardinality(NodesOfType("gate")) = Len(fn_args.gates)
        /\ Cardinality(NodesOfType("net")) >= Cardinality(NetNamesOfText)

\* two statements that instantiate gates of one name, parsed into a graph
\* of one gate node
C13_Witness ==
    /\ pc = "parsed"
    /\ Len(fn_args.gates) = 2
    /\ fn_args.gates[1].name = "g1"
    /\ fn_args.gates[2].name = "g1"
    /\ NodesOfType("gate") = {"g1"}

\* the keyword occurs in the upper-cased cell name being classified
Has(keyword) == Contains(Upper(fn_args), keyword)

(***************************************************************************)
(* C20.  The classification of a cell name is total and follows the        *)
(* precedence of the keywords: a name containing NAND is NAND and never    *)
(* AND, one containing XNOR is XNOR and never XOR, NOR or OR, one          *)
(* containing NOR is never OR, and a name of no keyword is UNKNOWN; every  *)
(* name gets exactly one kind.                                             *)
(***************************************************************************)
C20_ClassificationPrecedence ==
    pc = "classified" =>
        LET kind == fn_return[1]
        IN  /\ kind \in {"AND", "NAND", "OR", "NOR", "XOR", "XNOR", "NOT",
                         "BUF", "DFF", "MUX", "UNKNOWN"}
            /\ Has(<<"N", "A", "N", "D">>) => kind = "NAND"
            /\ Has(<<"X", "N", "O", "R">>) => kind \notin {"XOR", "NOR", "OR"}
            /\ (Has(<<"X", "N", "O", "R">>) /\ ~Has(<<"N", "A", "N", "D">>)
                /\ ~Has(<<"A", "N", "D">>)) => kind = "XNOR"
            /\ Has(<<"N", "O", "R">>) => kind # "OR"
            /\ (\A keyword \in {<<"A", "N", "D">>, <<"O", "R">>,
                                <<"N", "O", "T">>, <<"I", "N", "V">>,
                                <<"B", "U", "F">>, <<"D", "F", "F">>,
                                <<"M", "U", "X">>} : ~Has(keyword))
               => kind = "UNKNOWN"

\* a name holding XNOR, and so NOR and OR too, classified XNOR
C20_Witness ==
    /\ pc = "classified"
    /\ fn_args = <<"X", "N", "O", "R">>
    /\ fn_return = <<"XNOR">>

\* the numbers in the signal names of the fragment last generated
SignalIds ==
    {trojan_verilog[k].id : k \in 1..Len(trojan_verilog)} \ {0}

C14_WitnessAfterFailure ==
    /\ Returned
    /\ result.metadata.id = 2
    /\ Cardinality(DOMAIN output_files) = 1

\* the insert_trojan calls of the batch that did not return
FailedInsertions == trojan_counter - Len(results)

(***************************************************************************)
(* C15.  In insert_multiple_trojans a failure of one requested Trojan is   *)
(* fatal for that Trojan only: every later request is still attempted, the *)
(* successes returned are exactly the insertions that did not fail, the    *)
(* manifest's num_trojans is their count, and the caller also receives an  *)
(* itemized list of the failures.                                          *)
(***************************************************************************)
C15_FailuresAreLocalAndItemized ==
    pc = "batch_returned" =>
        /\ fn_args.target_nets # <<>> => trojan_counter = fn_args.num_trojans
        /\ {results[k][1] : k \in 1..Len(results)} = DOMAIN output_files
        /\ Len(results) = Cardinality(DOMAIN output_files)
        /\ fn_return.results = results
        /\ metadata_file[1].num_trojans = Len(results)
        /\ "failures" \in DOMAIN fn_return
        /\ Len(fn_return.failures) = FailedInsertions

\* the first of two requests failed, the second was attempted and
\* succeeded, and the caller received the successes alone
C15_Witness ==
    /\ pc = "batch_returned"
    /\ trojan_counter = 2
    /\ FailedInsertions = 1
    /\ results[1][2].id = 2
    /\ DOMAIN fn_return = {"results"}

\* the tokens of a text that only a fragment holds
FragmentPlaces(content) ==
    {k \in 1..Len(content) :
        content[k].id # 0 \/ content[k] \in Range(KindLines(content))}

(***************************************************************************)
(* C16.  Round trip of weaving and verification: for a netlist written by  *)
(* insert_trojan from an original text without Trojan markers (no start    *)
(* marker, no end marker, no trigger/payload line), whatever the trigger   *)
(* kind and the payload kind, verify_single_netlist reports has_trojan,    *)
(* num_trojans = 1 and exactly one (trigger_type, payload_type) pair, the  *)
(* kinds of the insertion; one start marker stands before the fragment and *)
(* one end marker after it.                                                *)
(***************************************************************************)
C16_RoundTrip ==
    fn_args # <<>> =>
        LET netlist_file == fn_args[1]
            content == output_files[netlist_file]
        IN  /\ fn_return.has_trojan
            /\ fn_return.num_trojans = 1
            /\ fn_return.trojans =
                  <<[trigger_type |-> netlist_file.trigger_type,
                     payload_type |-> netlist_file.payload_type]>>
            /\ Cardinality(Found(content, StartMarker)) = 1
            /\ Cardinality(Found(content, EndMarker)) = 1
            /\ \A start \in Found(content, StartMarker),
                  end \in Found(content, EndMarker),
                  k \in FragmentPlaces(content) : start < k /\ k < end

\* the file of a sequential Trojan of payload dos, woven into a text
\* without the closing keyword, verified
C16_Witness ==
    /\ fn_args # <<>>
    /\ fn_args[1].trigger_type = "sequential"
    /\ fn_args[1].payload_type = "dos"
    /\ KeywordPositions(output_files[fn_args[1]]) = {}
    /\ fn_return.num_trojans = 1

(***************************************************************************)
(* C17.  A source text without the keyword endmodule is no hard failure of *)
(* the weaving: the modified text is still returned, it is the unaltered   *)
(* original followed by the fragment at the end of the text, and the       *)
(* missing anchor is recorded as a diagnostic surfaced to the caller.      *)
(***************************************************************************)
C17_MissingAnchorAppendsAndWarns ==
    (Returned /\ KeywordPositions(netlist_content) = {}) =>
        LET original == Len(netlist_content)
            total == Len(modified_netlist)
        IN  /\ output_files[result.output_file[1]] = modified_netlist
            /\ SubSeq(modified_netlist, 1, original) = netlist_content
            /\ SubSeq(modified_netlist, total - Len(trojan_verilog) + 1, total)
                  = trojan_verilog
            /\ result.warnings # <<>>

\* a Trojan woven into a text without the keyword: the file holds the
\* original, a line break and the fragment, and the call gave no warning
C17_Witness ==
    /\ Returned
    /\ KeywordPositions(netlist_content) = {}
    /\ output_files[result.output_file[1]]
          = netlist_content \o <<NL>> \o trojan_verilog
    /\ result.warnings = <<>>

(***************************************************************************)
(* C18.  The Feature Records compiled are exactly the internal nets: one   *)
(* record for every net of the net table that is neither a primary input   *)
(* nor a primary output, none for a primary input or a primary output; and *)
(* compiling changes no attribute of a net.                                *)
(***************************************************************************)
C18_RecordsAreTheInternalNets ==
    /\ [](pc = "compiled" =>
             /\ DOMAIN fn_return = nets \ (primary_inputs \cup primary_outputs)
             /\ \A net \in DOMAIN fn_return :
                   /\ fn_return[net].net_name = net
                   /\ ~fn_return[net].is_input
                   /\ ~fn_return[net].is_output)
    /\ [][UNCHANGED <<nets, primary_inputs, primary_outputs,
                      controllability_0, controllability_1,
                      observability>>]_vars

\* a table of a primary output and an internal net compiled into the one
\* record of the internal net
C18_Witness ==
    /\ pc = "compiled"
    /\ primary_inputs = {}
    /\ primary_outputs = {0}
    /\ DOMAIN fn_return = {1}

\* the rational q lies in [low, high], both integers
Within(q, low, high) ==
    /\ ~IsInf(q)
    /\ Leq(Num(low), q)
    /\ Leq(q, Num(high))

(***************************************************************************)
(* C19.  In every Feature Record the normalized controllability-0,         *)
(* controllability-1 and observability are min(value, 100)/100 and lie in  *)
(* [0,1], a net left at the +infinity sentinel giving exactly 1; the       *)
(* average controllability is the mean of the two normalized               *)
(* controllabilities; and testability, the average controllability plus    *)
(* the normalized observability, lies in [0,2].                            *)
(***************************************************************************)
C19_NormalizedFeatures ==
    pc = "compiled" =>
        \A net \in DOMAIN fn_return :
            LET record == fn_return[net]
                costs == <<controllability_0[net], controllability_1[net],
                           observability[net]>>
                norms == <<record.controllability_0, record.controllability_1,
                           record.observability>>
            IN  /\ \A k \in 1..3 :
                      /\ Within(norms[k], 0, 1)
                      /\ IsInf(costs[k]) => norms[k] = Num(1)
                      /\ Less(Num(FeatureCeiling), costs[k])
                            => norms[k] = Num(1)
                      /\ Leq(costs[k], Num(FeatureCeiling))
                            => norms[k] = Rat(costs[k].n,
                                              costs[k].d * FeatureCeiling)
                /\ Plus(record.avg_controllability, record.avg_controllability)
                      = Plus(norms[1], norms[2])
                /\ record.testability
                      = Plus(record.avg_controllability, norms[3])
                /\ Within(record.testability, 0, 2)

\* an internal net left at the sentinel on every cost: all three
\* normalized to 1, testability 2
C19_Witness ==
    /\ pc = "compiled"
    /\ 1 \in DOMAIN fn_return
    /\ controllability_0[1] = Inf
    /\ controllability_1[1] = Inf
    /\ observability[1] = Inf
    /\ fn_return[1].controllability_0 = Num(1)
    /\ fn_return[1].testability = Num(2)

(***************************************************************************)
(* C21.  Determinism: the same netlist text parsed and analysed twice      *)
(* gives identical graphs (the same nodes and edges in the same order) and *)
(* identical features; the result does not depend on the order in which    *)
(* the set of the primary inputs and the set of the primary outputs are    *)
(* iterated.                                                               *)
(***************************************************************************)
C21_SameTextSameResult ==
    pc = "extracted" =>
        /\ fn_return[1].graph = fn_return[2].graph
        /\ fn_return[1].features = fn_return[2].features

\* two runs that iterate two primary inputs and two primary outputs in
\* opposite orders, the inputs at different distances of net n4
C21_Witness ==
    /\ pc = "extracted"
    /\ fn_args.orders[1] = [pi |-> <<"n1", "n2">>, po |-> <<"n3", "n4">>]
    /\ fn_args.orders[2] = [pi |-> <<"n2", "n1">>, po |-> <<"n4", "n3">>]
    /\ Len(fn_args.text.gates) = 2
    /\ fn_args.text.gates[1].conns = << <<"A", "n1">>, <<"Y", "n2">> >>
    /\ fn_args.text.gates[2].conns = << <<"A", "n2">>, <<"Y", "n4">> >>
    /\ fn_return[2].features.logic_depth["n4"] = 2

\* the nets driven by a gate of the analysed text that a net of S feeds
DrivenFrom(S) ==
    {fn_args.text.gates[k].conns[2][2] :
        k \in {j \in 1..Len(fn_args.text.gates) :
                  fn_args.text.gates[j].conns[1][2] \in S}}

\* the fewest gates on a path from a net of the frontier to the target,
\* `hops` gates away from where the search began; -1 where there is no path
RECURSIVE GateHops(_, _, _, _)
GateHops(frontier, seen, target, hops) ==
    IF target \in frontier THEN hops
    ELSE LET next == DrivenFrom(frontier) \ seen
         IN  IF next = {} THEN -1
             ELSE GateHops(next, seen \cup next, target, hops + 1)

(***************************************************************************)
(* C25.  The logic depth of a net that is no primary input is its least    *)
(* distance, in gate hops, from a primary input that reaches it (1 for a   *)
(* net driven by a gate that a primary input feeds); a primary input has   *)
(* depth 0, and so has a net that no primary input reaches.                *)
(***************************************************************************)
C25_DepthInGateHops ==
    pc = "extracted" =>
        LET inputs == Range(fn_args.text.inputs)
            depth == fn_return[1].features.logic_depth
        IN  \A net \in DOMAIN depth :
               IF net \in inputs THEN depth[net] = 0
               ELSE LET hops == GateHops(inputs, inputs, net, 0)
                    IN  depth[net] = IF hops = -1 THEN 0 ELSE hops

\* the buffer g1 fed by the primary input n1 drives n3, whose depth is 2
C25_Witness ==
    /\ pc = "extracted"
    /\ fn_args.text.inputs = <<"n1">>
    /\ Len(fn_args.text.gates) = 1
    /\ fn_args.text.gates[1].conns = << <<"A", "n1">>, <<"Y", "n3">> >>
    /\ fn_return[1].features.logic_depth["n3"] = 2

(***************************************************************************)
(* C22.  Every update step of the controllability pass and of the          *)
(* observability pass is monotone non-increasing: the controllability-0,   *)
(* the controllability-1 and the observability of every net after a gate   *)
(* update are at most what they were before it, and no value increases     *)
(* once the passes have started.                                           *)
(***************************************************************************)
C22_UpdatesNeverIncrease ==
    [][pc # "scoap" =>
          \A net \in nets :
              /\ Leq(controllability_0'[net], controllability_0[net])
              /\ Leq(controllability_1'[net], controllability_1[net])
              /\ Leq(observability'[net], observability[net])]_vars

\* in the second pass of the observability loop, after gate updates that
\* lowered the controllability and the observability of the internal net
C22_Witness ==
    /\ pc = "observability_loop"
    /\ iteration = 1
    /\ gate_index > 1
    /\ 1 \in nets \ (primary_inputs \cup primary_outputs)
    /\ Less(controllability_0[1], Inf)
    /\ Less(Num(0), observability[1])
    /\ Less(observability[1], Inf)

\* one more controllability pass from gate k on moves some value by more
\* than 0.01 in one of its updates
RECURSIVE ControllabilityMoves(_, _, _)
ControllabilityMoves(c0, c1, k) ==
    IF k > Len(gates) THEN FALSE
    ELSE IF SkipsGate(ResolvedNets(gates[k].inputs))
    THEN ControllabilityMoves(c0, c1, k + 1)
    ELSE LET new == ControllabilityAfter(c0, c1, gates[k])
         IN  \/ \E net \in nets : \/ ChangedBy(new.c0[net], c0[net])
                                   \/ ChangedBy(new.c1[net], c1[net])
             \/ ControllabilityMoves(new.c0, new.c1, k + 1)

\* one more observability pass from gate k on moves some value by more
\* than 0.01 in one of its updates
RECURSIVE ObservabilityMoves(_, _)
ObservabilityMoves(obs, k) ==
    IF k > Len(gates) THEN FALSE
    ELSE LET new == ObservabilityAfter(obs, gates[k])
         IN  \/ \E net \in nets : ChangedBy(new[net], obs[net])
             \/ ObservabilityMoves(new, k + 1)

\* C23: when a controllability or an observability pass has stopped because
\* its last sweep over the gates moved no value by more than 0.01, applying
\* the update of every gate once more moves no value by more than 0.01.
C23_StoppedPassIsFixedPoint ==
    /\ (pc = "observability" /\ ~changed) =>
           ~ControllabilityMoves(controllability_0, controllability_1, 1)
    /\ (pc = "done" /\ ~changed) => ~ObservabilityMoves(observability, 1)

\* the slow netlist: the controllability pass stops after 4 of its 10
\* sweeps, and one more sweep lowers z from 123/16 to 491/64
C23_Witness ==
    /\ pc = "observability"
    /\ ~changed
    /\ gates = SlowGates
    /\ ctrl_passes = 4
    /\ controllability_0[5] = Rat(123, 16)
    /\ ControllabilityAfter(controllability_0, controllability_1,
                            gates[5]).c0[5] = Rat(491, 64)
    /\ ControllabilityMoves(controllability_0, controllability_1, 1)

\* the observability pass is about to update the gate at gate_index
AtObservabilityGate == pc = "observability_loop" /\ gate_index <= Len(gates)

PassReturned == pc \in {"observability", "done"}

\* the pass that has just returned ended on the cap: its tenth sweep still
\* moved a value
HitCap == changed /\ passes = MaxIterations

(***************************************************************************)
(* C26.  After each controllability or observability pass the caller can   *)
(* read off the engine whether the pass ended on the cap of 10 sweeps or   *)
(* by convergence: some attribute of the extractor is a flag that is true  *)
(* exactly when the pass hit the cap.                                      *)
(***************************************************************************)
C26_CapIsExposed ==
    PassReturned =>
        \E attribute \in DOMAIN FeatureExtractor :
            /\ FeatureExtractor[attribute].type = "bool"
            /\ FeatureExtractor[attribute].value = HitCap

\* the controllability pass of the chain of 11 buffers listed from the far
\* end has ended on the cap, the last net still unreached, and the
\* extractor holds its five attributes and no flag
C26_Witness ==
    /\ pc = "observability"
    /\ HitCap
    /\ gates = ChainGates(11, TRUE)
    /\ IsInf(controllability_0[11])
    /\ DOMAIN FeatureExtractor =
           {"parser", "graph", "nets", "gates", "features"}
    /\ \A attribute \in DOMAIN FeatureExtractor :
           FeatureExtractor[attribute].type # "bool"

\* the text is the original with one piece put in, the piece holding the
\* only start marker and the only end marker of the text and at most three
\* tokens before the one and after the other
OneFragmentAdded(text, original) ==
    /\ Count(StartMarker, text) = 1
    /\ Count(EndMarker, text) = 1
    /\ LET start == Search(text, StartMarker)
           end == Search(text, EndMarker)
       IN  /\ start < end
           /\ \E first \in (start - 3)..start, last \in end..(end + 3) :
                 /\ first >= 1
                 /\ last <= Len(text)
                 /\ SubSeq(text, 1, first - 1)
                       \o SubSeq(text, last + 1, Len(text)) = original

(***************************************************************************)
(* C27.  No insert_trojan call changes the stored source text of the       *)
(* inserter, and every output netlist is that text with exactly one Trojan *)
(* fragment in it, one start marker and one end marker: the Trojans of     *)
(* earlier calls are not carried into later ones.  The netlist is looked   *)
(* at when its call returns; a netlist once written is not written again.  *)
(***************************************************************************)
C27_OriginalKeptOneFragmentEach ==
    /\ [][netlist_content' = netlist_content]_vars
    /\ [][\A file \in DOMAIN output_files :
               /\ file \in DOMAIN output_files'
               /\ output_files'[file] = output_files[file]]_vars
    /\ []((pc = "insert" /\ result.status = "returned") =>
             OneFragmentAdded(output_files[result.output_file[1]],
                              netlist_content))

\* two calls have written two netlists, the second with the fragment of the
\* second Trojan alone
C27_Witness ==
    /\ pc = "insert"
    /\ trojan_counter = 2
    /\ Cardinality(DOMAIN output_files) = 2
    /\ result.status = "returned"
    /\ Count(StartMarker, modified_netlist) = 1
    /\ output_files[result.output_file[1]] = modified_netlist
    /\ \E k \in 1..Len(modified_netlist) : modified_netlist[k].id = 2
    /\ \A k \in 1..Len(modified_netlist) : modified_netlist[k].id # 1

\* a sequential Trojan generated from n trigger nets
SequentialOf(n) ==
    /\ pc = "circuit"
    /\ call.trigger_type = "sequential"
    /\ Len(TriggerNetNames) = n

(***************************************************************************)
(* C28.  A sequential trigger generated from 1 or 2 trigger nets never     *)
(* fires after a reset: the firing state 3 is not reached from the reset   *)
(* state, the trigger signal is never asserted, and from the first state   *)
(* without a case arm (state 1 for one net, state 2 for two) a clock edge  *)
(* outside reset leads back to state 0, whatever the trigger nets are.     *)
(***************************************************************************)
C28_FewNetsNeverFire ==
    /\ []((SequentialAfterReset /\ Len(TriggerNetNames) < 3) =>
            /\ trojan_state <= Len(TriggerNetNames)
            /\ trojan_state # 3
            /\ ~trojan_trigger)
    /\ [][((SequentialOf(1) \/ SequentialOf(2)) /\ ~rst'
             /\ trojan_state = Len(TriggerNetNames)) =>
            trojan_state' = 0]_vars

\* two trigger nets, both seen asserted in order since the reset: the
\* machine went to state 2 and is back at state 0 without having fired
C28_Witness ==
    /\ SequentialAfterReset
    /\ SequentialOf(2)
    /\ ~rst
    /\ observed = 2
    /\ trojan_state = 0
    /\ ~trojan_trigger

(***************************************************************************)
(* C29.  In the sequential trigger generated from 3 trigger nets the       *)
(* firing state 3 is left at the next clock edge outside reset, for state  *)
(* 0 and whatever the trigger nets are, so the trigger is asserted for one *)
(* clock cycle; the firing state is entered only from state 2 with the     *)
(* third net asserted, and every advance needs the net of its state, so    *)
(* the sequence has to be seen again before the trigger fires again.       *)
(***************************************************************************)
C29_FiringStateIsLeft ==
    [][(SequentialOf(3) /\ ~rst') =>
          /\ trojan_state = 3 => (trojan_state' = 0 /\ ~trojan_trigger')
          /\ trojan_state' = 3 =>
                (trojan_state = 2 /\ hw_values'[TriggerNetNames[3]])
          /\ trojan_state' \in {0, trojan_state, trojan_state + 1}
          /\ (trojan_state' # 0 /\ trojan_state' = trojan_state + 1) =>
                hw_values'[TriggerNetNames[trojan_state']]
          /\ (trojan_state' = 0 /\ trojan_state # 0) => trojan_state = 3]_vars

\* the machine has fired since the reset and is back at state 0, outside
\* reset and with all three trigger nets asserted
C29_Witness ==
    /\ SequentialAfterReset
    /\ SequentialOf(3)
    /\ ~rst
    /\ observed = 3
    /\ trojan_state = 0
    /\ ~trojan_trigger
    /\ \A net \in WiredNets : hw_values[net]

\* the smaller of two numbers
Least(a, b) == IF a < b THEN a ELSE b

\* the greater of two numbers
Greatest(a, b) == IF a < b THEN b ELSE a

(***************************************************************************)
(* C30.  In insert_multiple_trojans with n >= 1 candidate nets the window  *)
(* of request i starts at s = (i * 10) mod max(1, n - 10), lies inside the *)
(* list and holds exactly min(10, n) entries, target_nets[s : s + 10]; so  *)
(* every request is an insertion attempt, a request is skipped only when   *)
(* n = 0, and when the loop is over the attempts number num_trojans.       *)
(***************************************************************************)
C30_WindowInsideList ==
    /\ [][(pc = "batch" /\ batch_i' = batch_i + 1) =>
            LET n == Len(fn_args.target_nets)
                s == (batch_i * 10) % Greatest(1, n - 10)
            IN  IF n >= 1
                THEN /\ s + Least(10, n) <= n
                     /\ trojan_counter' = trojan_counter + 1
                     /\ Len(call'.target_nets) = Least(10, n)
                     /\ \A k \in 1..Least(10, n) :
                           call'.target_nets[k] = fn_args.target_nets[s + k]
                ELSE trojan_counter' = trojan_counter]_vars
    /\ []((pc = "batch" /\ batch_i = fn_args.num_trojans) =>
            trojan_counter =
               IF fn_args.target_nets # <<>> THEN fn_args.num_trojans ELSE 0)

\* 13 candidate nets, two requests made: the second one was given the ten
\* nets from the second on
C30_Witness ==
    /\ pc = "batch"
    /\ Len(fn_args.target_nets) = 13
    /\ fn_args.num_trojans = 2
    /\ batch_i = 2
    /\ trojan_counter = 2
    /\ call.target_nets = SubSeq(fn_args.target_nets, 2, 11)
====
